---- MODULE Spec2Model ----
(***************************************************************************)
(* Model of the OpenSearch knowledge-base pipeline of aos-mcp-serverless:  *)
(* the vector store gateway (aos_client.py), the embedding provider and    *)
(* bulk indexer (tools/embedding.py), the ingestor's index creation        *)
(* (doc_ingest.py) and the two MCP tools (app.py).                         *)
(*                                                                         *)
(* The search engine and the embedding API are the environment.  Every     *)
(* call the code makes to them either is answered or raises; which of the  *)
(* two happens is an input of the action (a "fault").  A handler is one    *)
(* action: it threads the store through every call the code makes and      *)
(* records what it returned (or raised) and the requests it issued.        *)
(*                                                                         *)
(* The agent-side MCP client (strands_agent_test/similarity_search.py) is   *)
(* modelled with the MCP endpoint as its environment: what the endpoint     *)
(* answers to each request is an input of the action.                       *)
(*                                                                         *)
(* Calls made by separate processes against the same store interleave at    *)
(* their store requests: there each request is a step of its own.           *)
(*                                                                         *)
(* The S3 upload server (s3_upload_server/src/server.py) runs against an    *)
(* object store of its own, and the Lambda authorizer                       *)
(* (serverless-mcp-setup/authorizer/app.py) is a function of its event and  *)
(* of the configured token.  A string that the code takes apart is the      *)
(* sequence of its parts ("Bearer tok" is <<"Bearer ", "tok">>).            *)
(*                                                                         *)
(* Python values: a dict is a function from keys to values, None/""        *)
(* document ids are "", an optional number is a sequence of length <= 1,   *)
(* a float vector is represented by its length ([dim |-> n]), a message    *)
(* f"<prefix>{x}" is the pair [prefix, text].                              *)
(***************************************************************************)
EXTENDS Integers, Sequences, FiniteSets, TLC

VARIABLES
    embedding_api_token, \* process-wide configuration, read once at startup
    index,               \* the store's index: <<>> (absent) or <<creation body>>
    docs,                \* the index's documents: id -> _source
    visible,             \* the documents a search sees (as of the last refresh)
    nauto,               \* ids the store has generated so far
    session_id,          \* MCPClient.session_id of the agent-side client ("" is None)
    inflight,            \* the calls in progress in concurrent processes, by process
    s3,                  \* the object store: its buckets and the objects of the bucket
    last                 \* the last completed call: op, args, env, out, calls

vars == <<embedding_api_token, index, docs, visible, nauto, session_id, inflight, s3, last>>

(***************************** bounds **************************************)
MaxK == 2        \* largest k / size of a search
MaxBulk == 2     \* longest document list handed to the bulk indexer

(*************************** configuration *********************************)
VECTOR_FIELD == "dense_vector"
VECTOR_DIMENSION == 1024
IndexName == "default"

Tokens == {"", "tok"}
Texts == {"t1", "t2"}
ExplicitIds == {"X"}
\* The ids the store generates, in the order it generates them.
AutoIds == <<"a1">>

(***************************** Python values *******************************)
EmptyDict == [x \in {} |-> ""]

Put(d, k, v) == [x \in (DOMAIN d) \cup {k} |-> IF x = k THEN v ELSE d[x]]

Without(d, ks) == [x \in (DOMAIN d) \ ks |-> d[x]]

\* An optional value: None, or the value.
None == <<>>

Some(v) == <<v>>

Ret(v) == [raised |-> FALSE, value |-> v]

Raise(type, text) == [raised |-> TRUE, exc |-> [type |-> type, text |-> text]]

Message(prefix, text) == [prefix |-> prefix, text |-> text]

(******************************* the store *********************************)
\* A fault names the store call that raises and the exception it raises.
NoFault == [call |-> "none", type |-> "none"]

\* A bulk call that is answered, with a response that rejects the first item of the
\* body ("errors": true) and applies the others.
Rejecting == [call |-> "bulk", type |-> "item rejected"]

StoreExcTypes == {"ConnectionError", "RequestError", "NotFoundError", "TransportError"}

FaultsAt(callNames) == {NoFault} \cup [call : callNames, type : StoreExcTypes]

ExcText == "boom"

NoBody == {}

Store == [index |-> index, docs |-> docs, visible |-> visible, nauto |-> nauto]

IndicesExists(st) == Len(st.index) = 1

IndicesCreate(st, body) == [st EXCEPT !.index = <<body>>]

StoreIndex(st, id, body, refresh) ==
    LET d == Put(st.docs, id, body)
    IN  [st EXCEPT !.docs = d, !.visible = IF refresh THEN d ELSE @]

StoreDelete(st, id, refresh) ==
    LET d == Without(st.docs, {id})
    IN  [st EXCEPT !.docs = d, !.visible = IF refresh THEN d ELSE @]

\* The hits of a search: the ranking is the engine's choice of visible documents and
\* scores; _source leaves out the fields the query excludes.
StoreSearch(st, query, ranking) ==
    [hits |-> [hits |->
        [i \in 1..Len(ranking) |->
            [_id |-> ranking[i].id, _score |-> ranking[i].score,
             _source |-> Without(st.visible[ranking[i].id], query.excludes)]]]]

SeqsUpTo(S, n) == UNION { [1..m -> S] : m \in 0..n }

(************************* aos_client.py: the gateway **********************)
Result(r, st, calls) == [out |-> r, st |-> st, calls |-> calls]

ExistsCall == [api |-> "indices.exists"]

\* The search request, with the ranking the store answered it with.
SearchCall(query, size, ranking) ==
    [api |-> "search", body |-> query, size |-> size, answer |-> ranking]

search_documents_try(st, query, size, fault, ranking) ==
    IF fault.call = "indices.exists"
    THEN Result(Raise(fault.type, ExcText), st, <<ExistsCall>>)
    ELSE IF ~IndicesExists(st)
    THEN Result(Ret([status |-> "error",
                     message |-> Message("Index {} does not exist", IndexName),
                     results |-> <<>>]), st, <<ExistsCall>>)
    ELSE IF fault.call = "search"
    THEN Result(Raise(fault.type, ExcText), st, <<ExistsCall, SearchCall(query, size, <<>>)>>)
    ELSE Result(Ret([status |-> "success", results |-> StoreSearch(st, query, ranking)]),
                st, <<ExistsCall, SearchCall(query, size, ranking)>>)

\* The handler with the request-error clause carrying the connection-error text.
search_documents_except_copied(exc) ==
    IF exc.type = "ConnectionError" \/ exc.type = "RequestError"
    THEN [status |-> "error", message |-> Message("Connection error: ", exc.text), results |-> <<>>]
    ELSE [status |-> "error", message |-> Message("Unexpected error: ", exc.text), results |-> <<>>]

search_documents_except(exc) ==
    IF exc.type = "ConnectionError"
    THEN [status |-> "error", message |-> Message("Connection error: ", exc.text), results |-> <<>>]
    ELSE IF exc.type = "RequestError"
    THEN [status |-> "error", message |-> Message("Invalid query: ", exc.text), results |-> <<>>]
    ELSE [status |-> "error", message |-> Message("Unexpected error: ", exc.text), results |-> <<>>]

search_documents(st, query, size, fault, ranking) ==
    LET r == search_documents_try(st, query, size, fault, ranking)
    IN  IF r.out.raised THEN [r EXCEPT !.out = Ret(search_documents_except(r.out.exc))] ELSE r

IndexCall(id, document, refresh) ==
    [api |-> "index", id |-> id, body |-> document, refresh |-> refresh]

\* The try block shared by write_document (id given) and index_document (no id: the
\* store generates newid): the index is created, when absent, with no body.
write_try(st, id, newid, document, refresh, fault) ==
    IF fault.call = "indices.exists"
    THEN Result(Raise(fault.type, ExcText), st, <<ExistsCall>>)
    ELSE LET index_exists == IndicesExists(st)
             c2 == IF index_exists THEN <<ExistsCall>>
                   ELSE <<ExistsCall, [api |-> "indices.create", body |-> NoBody]>>
         IN  IF ~index_exists /\ fault.call = "indices.create"
             THEN Result(Raise(fault.type, ExcText), st, c2)
             ELSE LET st2 == IF index_exists THEN st ELSE IndicesCreate(st, NoBody)
                      c3 == Append(c2, IndexCall(id, document, refresh))
                  IN  IF fault.call = "index"
                      THEN Result(Raise(fault.type, ExcText), st2, c3)
                      ELSE LET stored == IF id = "" THEN newid ELSE id
                               st3 == StoreIndex(st2, stored, document, refresh)
                           IN  Result(Ret([status |-> "success",
                                           response |-> [_id |-> stored,
                                               result |-> IF stored \in DOMAIN st2.docs
                                                          THEN "updated" ELSE "created"]]),
                                      IF id = "" THEN [st3 EXCEPT !.nauto = @ + 1] ELSE st3,
                                      c3)

write_except(exc) ==
    IF exc.type = "ConnectionError"
    THEN [status |-> "error", message |-> Message("Connection error: ", exc.text)]
    ELSE IF exc.type = "RequestError"
    THEN [status |-> "error", message |-> Message("Invalid document: ", exc.text)]
    ELSE [status |-> "error", message |-> Message("Unexpected error: ", exc.text)]

\* write_document without refresh=True.
write_document_norefresh(st, document_id, document, fault) ==
    LET r == write_try(st, document_id, "", document, FALSE, fault)
    IN  IF r.out.raised THEN [r EXCEPT !.out = Ret(write_except(r.out.exc))] ELSE r

write_document(st, document_id, document, fault) ==
    LET r == write_try(st, document_id, "", document, TRUE, fault)
    IN  IF r.out.raised THEN [r EXCEPT !.out = Ret(write_except(r.out.exc))] ELSE r

\* index_document passes no id: the store generates one.
index_document(st, document, fault) ==
    LET r == write_try(st, "", AutoIds[st.nauto + 1], document, TRUE, fault)
    IN  IF r.out.raised THEN [r EXCEPT !.out = Ret(write_except(r.out.exc))] ELSE r

DeleteCall(id, refresh) == [api |-> "delete", id |-> id, refresh |-> refresh]

\* The store answers a delete of an id it does not hold with NotFoundError (404).
delete_document_try(st, document_id, refresh, fault) ==
    IF fault.call = "indices.exists"
    THEN Result(Raise(fault.type, ExcText), st, <<ExistsCall>>)
    ELSE IF ~IndicesExists(st)
    THEN Result(Ret([status |-> "error",
                     message |-> Message("Index {} does not exist", IndexName)]),
                st, <<ExistsCall>>)
    ELSE LET calls == <<ExistsCall, DeleteCall(document_id, refresh)>>
         IN  IF fault.call = "delete"
             THEN Result(Raise(fault.type, ExcText), st, calls)
             ELSE IF document_id \notin DOMAIN st.docs
             THEN Result(Raise("NotFoundError", "not_found"), st, calls)
             ELSE Result(Ret([status |-> "success",
                              response |-> [_id |-> document_id, result |-> "deleted"]]),
                         StoreDelete(st, document_id, refresh), calls)

\* The handler without the NotFoundError clause.
delete_document_except_generic(document_id, exc) ==
    [status |-> "error", message |-> Message("Unexpected error: ", exc.text)]

delete_document_except(document_id, exc) ==
    IF exc.type = "NotFoundError"
    THEN [status |-> "error", message |-> Message("Document with ID {} not found", document_id)]
    ELSE [status |-> "error", message |-> Message("Unexpected error: ", exc.text)]

\* delete_document without the catch-all clause.
delete_document_narrow(st, document_id, fault) ==
    LET r == delete_document_try(st, document_id, TRUE, fault)
    IN  IF r.out.raised /\ r.out.exc.type = "NotFoundError"
        THEN [r EXCEPT !.out = Ret(delete_document_except(document_id, r.out.exc))]
        ELSE r

delete_document(st, document_id, fault) ==
    LET r == delete_document_try(st, document_id, TRUE, fault)
    IN  IF r.out.raised
        THEN [r EXCEPT !.out = Ret(delete_document_except(document_id, r.out.exc))]
        ELSE r

(************************** the embedding API ******************************)
DEFAULT_MODEL == "Pro/BAAI/bge-m3"

Vec(n) == [dim |-> n]

len(vector) == vector.dim

Get(d, k, default) == IF k \in DOMAIN d THEN d[k] ELSE default

\* What one POST to the embedding API can do: fail in transport, answer with an HTTP
\* error status, or answer 200 with a JSON body.
ApiBodies ==
    { Put(EmptyDict, "data", <<Put(EmptyDict, "embedding", Vec(n))>>) : n \in {VECTOR_DIMENSION, 512} }
    \cup { EmptyDict, Put(EmptyDict, "data", <<>>) }

ApiResponses ==
    { [transport |-> "ok", http |-> 200, json |-> b] : b \in ApiBodies }
    \cup { [transport |-> "ok", http |-> 500, json |-> EmptyDict],
           [transport |-> "ConnectionError", http |-> 0, json |-> EmptyDict] }

NoApi == [transport |-> "unused", http |-> 0, json |-> EmptyDict]

PostCall(url, token, text) ==
    [api |-> "requests.post", url |-> url, authorization |-> <<"Bearer ", token>>, input |-> text]

\* Lines 45-67 of app.py (28-50 of embedding.py): post, raise_for_status, read
\* data[0].embedding with the defaults of the two .get calls.
embedding_try(api, model_name) ==
    IF api.transport # "ok" THEN Raise("RequestException", api.transport)
    ELSE IF api.http # 200 THEN Raise("RequestException", "HTTPError")
    ELSE LET data == Get(api.json, "data", <<EmptyDict>>)
         IN  IF Len(data) = 0 THEN Raise("IndexError", "list index out of range")
             ELSE Ret([status |-> "success",
                       embedding |-> Get(data[1], "embedding", Vec(0)),
                       model |-> model_name])

embedding_except(exc) ==
    IF exc.type = "RequestException"
    THEN [status |-> "error", message |-> Message("API request failed: ", exc.text)]
    ELSE [status |-> "error", message |-> Message("Unexpected error: ", exc.text)]

EMBEDDING_API_URL == "https://api.siliconflow.cn/v1/embeddings"

\* generate_embedding with a second attempt after a failed request.
generate_embedding_retry(token, text, api) ==
    IF token = ""
    THEN [out |-> Ret([status |-> "error",
                       message |-> Message("API token not configured for embedding service", "")]),
          calls |-> <<>>]
    ELSE LET r == embedding_try(api, DEFAULT_MODEL)
             post == PostCall(EMBEDDING_API_URL, token, text)
         IN  [out |-> IF r.raised THEN Ret(embedding_except(r.exc)) ELSE r,
              calls |-> IF r.raised /\ r.exc.type = "RequestException"
                        THEN <<post, post>> ELSE <<post>>]

\* app.py
generate_embedding(token, text, api) ==
    IF token = ""
    THEN [out |-> Ret([status |-> "error",
                       message |-> Message("API token not configured for embedding service", "")]),
          calls |-> <<>>]
    ELSE LET r == embedding_try(api, DEFAULT_MODEL)
         IN  [out |-> IF r.raised THEN Ret(embedding_except(r.exc)) ELSE r,
              calls |-> <<PostCall(EMBEDDING_API_URL, token, text)>>]

\* tools/embedding.py
EmbeddingTools_generate_embedding(token, text, api) ==
    IF token = ""
    THEN [out |-> Ret([status |-> "error",
                       message |-> Message("API token not configured for embedding service", "")]),
          calls |-> <<>>]
    ELSE LET r == embedding_try(api, DEFAULT_MODEL)
         IN  [out |-> IF r.raised THEN Ret(embedding_except(r.exc)) ELSE r,
              calls |-> <<PostCall(EMBEDDING_API_URL, token, text)>>]

(******************************* app.py ************************************)
KnnQuery(vector, k) ==
    [size |-> k, knn |-> [field |-> VECTOR_FIELD, vector |-> vector, k |-> k],
     excludes |-> {VECTOR_FIELD}]

\* The reshaping with the whole source as metadata.
Simplify_whole(hit) ==
    LET source == Get(hit, "_source", EmptyDict)
    IN  [id |-> hit._id, score |-> hit._score,
         text |-> Get(source, "text", ""),
         metadata |-> source]

\* Lines 109-116: one result per hit.
Simplify(hit) ==
    LET source == Get(hit, "_source", EmptyDict)
    IN  [id |-> hit._id, score |-> hit._score,
         text |-> Get(source, "text", ""),
         metadata |-> Without(source, {"text", VECTOR_FIELD})]

\* knn_search without the validation of lines 79-83.
knn_search_unchecked(st, vector, k, fault, ranking) ==
    LET r == search_documents(st, KnnQuery(vector, k), k, fault, ranking)
        result == r.out.value
    IN  IF result.status = "success" /\ "results" \in DOMAIN result
        THEN LET hits == result.results.hits.hits
                 simplified_results == [i \in 1..Len(hits) |-> Simplify(hits[i])]
             IN  [r EXCEPT !.out = Ret([status |-> "success",
                                        results |-> simplified_results,
                                        total |-> Len(simplified_results)])]
        ELSE r

\* Nothing in lines 79-124 raises on the inputs modelled here, so the handler of
\* lines 126-127 is never entered.
knn_search(st, vector, k, fault, ranking) ==
    IF len(vector) # VECTOR_DIMENSION
    THEN Result(Ret([status |-> "error",
                     message |-> Message("Vector dimension mismatch. Expected 1024, got {}",
                                         ToString(len(vector)))]),
                st, <<>>)
    ELSE LET r == search_documents(st, KnnQuery(vector, k), k, fault, ranking)
             result == r.out.value
         IN  IF result.status = "success" /\ "results" \in DOMAIN result
             THEN LET hits == result.results.hits.hits
                      simplified_results == [i \in 1..Len(hits) |-> Simplify(hits[i])]
                  IN  [r EXCEPT !.out = Ret([status |-> "success",
                                             results |-> simplified_results,
                                             total |-> Len(simplified_results)])]
             ELSE r

\* The metadata argument is a string; these stand for the JSON texts
\* {}, {"source": "f"}, {"text": "other"}, {"dense_vector": [0.5]}, [1], null
\* and a text that is not JSON.
MetadataStrings ==
    {"{}", "{source:f}", "{text:other}", "{dense_vector:[0.5]}", "[1]", "null", "{bad"}

PyValue(type, v) == [type |-> type, v |-> v]

json_loads(s) ==
    CASE s = "{}" -> Ret(PyValue("dict", EmptyDict))
      [] s = "{source:f}" -> Ret(PyValue("dict", Put(EmptyDict, "source", "f")))
      [] s = "{text:other}" -> Ret(PyValue("dict", Put(EmptyDict, "text", "other")))
      [] s = "{dense_vector:[0.5]}" -> Ret(PyValue("dict", Put(EmptyDict, VECTOR_FIELD, Vec(1))))
      [] s = "[1]" -> Ret(PyValue("list", EmptyDict))
      [] s = "null" -> Ret(PyValue("NoneType", EmptyDict))
      [] OTHER -> Raise("JSONDecodeError", s)

\* Lines 159-161: copy the parsed metadata and store text and vector into it.
PrepareDocument(parsed, text, embedding) ==
    IF parsed.type = "dict"
    THEN Ret(Put(Put(parsed.v, "text", text), VECTOR_FIELD, embedding))
    ELSE IF parsed.type = "list"
    THEN Raise("TypeError", "list indices must be integers or slices, not str")
    ELSE Raise("AttributeError", "object has no attribute 'copy'")

index_text_with_embedding(st, token, text, document_id, metadata, api, fault) ==
    LET e == generate_embedding(token, text, api)
        embedding_result == e.out.value
    IN  IF embedding_result.status # "success" THEN Result(e.out, st, e.calls)
        ELSE LET parsed == IF metadata # "{}" THEN json_loads(metadata)
                           ELSE Ret(PyValue("dict", EmptyDict))
             IN  IF parsed.raised
                 THEN IF parsed.exc.type = "JSONDecodeError"
                      THEN Result(Ret([status |-> "error",
                                       message |-> Message("Invalid metadata JSON format", "")]),
                                  st, e.calls)
                      ELSE Result(parsed, st, e.calls)
                 ELSE LET document == PrepareDocument(parsed.value, text, embedding_result.embedding)
                      IN  IF document.raised THEN Result(document, st, e.calls)
                          ELSE LET w == IF document_id # ""
                                        THEN write_document(st, document_id, document.value, fault)
                                        ELSE index_document(st, document.value, fault)
                               IN  [w EXCEPT !.calls = e.calls \o @]

\* The filter keeping also a score equal to the threshold.
FilterByScore_inclusive(results, score) ==
    IF \E i \in 1..Len(results) : results[i].score = <<>>
    THEN Raise("TypeError", "'>' not supported between instances of 'NoneType' and 'float'")
    ELSE Ret(SelectSeq(results, LAMBDA result : result.score[1] >= score))

\* Line 207: comparing a score of None with the threshold is a TypeError.
FilterByScore(results, score) ==
    IF \E i \in 1..Len(results) : results[i].score = <<>>
    THEN Raise("TypeError", "'>' not supported between instances of 'NoneType' and 'float'")
    ELSE Ret(SelectSeq(results, LAMBDA result : result.score[1] > score))

text_similarity_search(st, token, text, k, score, api, fault, ranking) ==
    LET e == generate_embedding(token, text, api)
        embedding_result == e.out.value
    IN  IF embedding_result.status # "success" THEN Result(e.out, st, e.calls)
        ELSE LET s == knn_search(st, embedding_result.embedding, k, fault, ranking)
                 search_result == s.out.value
                 calls == e.calls \o s.calls
             IN  IF search_result.status = "success"
                 THEN LET filtered_results == FilterByScore(search_result.results, score)
                      IN  IF filtered_results.raised THEN Result(filtered_results, s.st, calls)
                          ELSE Result(Ret([status |-> "success",
                                           query_text |-> text,
                                           results |-> filtered_results.value,
                                           total |-> Len(filtered_results.value),
                                           score_threshold |-> score,
                                           original_total |-> Get(search_result, "total", 0)]),
                                      s.st, calls)
                 ELSE Result(s.out, s.st, calls)

(************************** doc_ingest.py: the index ***********************)
\* The body of lines 96-125, one element per leaf of the dict.
mapping ==
    { "settings.index.number_of_shards=1",
      "settings.index.number_of_replicas=0",
      "settings.index.refresh_interval=60s",
      "settings.index.knn=True",
      "settings.index.knn.algo_param.ef_search=32",
      "mappings.properties.dense_vector.type=knn_vector",
      "mappings.properties.dense_vector.dimension=1024",
      "mappings.properties.dense_vector.method.name=hnsw",
      "mappings.properties.dense_vector.method.space_type=innerproduct",
      "mappings.properties.dense_vector.method.engine=faiss",
      "mappings.properties.dense_vector.method.parameters.ef_construction=32",
      "mappings.properties.dense_vector.method.parameters.m=16",
      "mappings.properties.text.type=text",
      "mappings.properties.metadata.type=object" }

CreateCall(body) == [api |-> "indices.create", body |-> body]

\* create_index_if_not_exists without the existence check: the store refuses to create
\* an index that exists.
create_index_unchecked(st, fault) ==
    IF fault.call = "indices.create" THEN Result(Raise(fault.type, ExcText), st, <<CreateCall(mapping)>>)
    ELSE IF IndicesExists(st)
    THEN Result(Raise("RequestError", "resource_already_exists_exception"), st,
                <<CreateCall(mapping)>>)
    ELSE Result(Ret("None"), IndicesCreate(st, mapping), <<CreateCall(mapping)>>)

\* No try block: whatever the store raises leaves the function.
create_index_if_not_exists(st, fault) ==
    IF fault.call = "indices.exists"
    THEN Result(Raise(fault.type, ExcText), st, <<ExistsCall>>)
    ELSE IF ~IndicesExists(st)
    THEN LET calls == <<ExistsCall, CreateCall(mapping)>>
         IN  IF fault.call = "indices.create"
             THEN Result(Raise(fault.type, ExcText), st, calls)
             ELSE Result(Ret("None"), IndicesCreate(st, mapping), calls)
    ELSE Result(Ret("None"), st, <<ExistsCall>>)

(********************* tools/embedding.py: bulk indexing *******************)
\* The loop with a document that lacks the text field skipped without a record.
RECURSIVE EmbedLoop_skip(_, _, _, _, _)
EmbedLoop_skip(token, documents, apis, text_field, acc) ==
    IF documents = <<>> THEN acc
    ELSE LET doc == Head(documents)
         IN  IF text_field \notin DOMAIN doc
             THEN EmbedLoop_skip(token, Tail(documents), Tail(apis), text_field, acc)
             ELSE LET e == EmbeddingTools_generate_embedding(token, doc[text_field], Head(apis))
                      embedding_result == e.out.value
                  IN  IF embedding_result.status # "success"
                      THEN EmbedLoop_skip(token, Tail(documents), Tail(apis), text_field,
                               [acc EXCEPT !.failed_docs =
                                    Append(@, [doc |-> doc, reason |-> embedding_result.message]),
                                           !.calls = @ \o e.calls])
                      ELSE EmbedLoop_skip(token, Tail(documents), Tail(apis), text_field,
                               [acc EXCEPT !.processed_docs =
                                    Append(@, Put(doc, VECTOR_FIELD, embedding_result.embedding)),
                                           !.calls = @ \o e.calls])

\* The loop given up at the first document whose embedding fails.
RECURSIVE EmbedLoop_stop(_, _, _, _, _)
EmbedLoop_stop(token, documents, apis, text_field, acc) ==
    IF documents = <<>> THEN acc
    ELSE LET doc == Head(documents)
         IN  IF text_field \notin DOMAIN doc
             THEN EmbedLoop_stop(token, Tail(documents), Tail(apis), text_field,
                      [acc EXCEPT !.failed_docs =
                          Append(@, [doc |-> doc,
                                     reason |-> Message("Missing text field '{}'", text_field)])])
             ELSE LET e == EmbeddingTools_generate_embedding(token, doc[text_field], Head(apis))
                      embedding_result == e.out.value
                  IN  IF embedding_result.status # "success"
                      THEN [acc EXCEPT !.failed_docs =
                                    Append(@, [doc |-> doc, reason |-> embedding_result.message]),
                                       !.calls = @ \o e.calls]
                      ELSE EmbedLoop_stop(token, Tail(documents), Tail(apis), text_field,
                               [acc EXCEPT !.processed_docs =
                                    Append(@, Put(doc, VECTOR_FIELD, embedding_result.embedding)),
                                           !.calls = @ \o e.calls])

\* Lines 72-87: one pass over the documents, in order.  apis[i] is what the embedding
\* API does with the request for documents[i], if one is made.
RECURSIVE EmbedLoop(_, _, _, _, _)
EmbedLoop(token, documents, apis, text_field, acc) ==
    IF documents = <<>> THEN acc
    ELSE LET doc == Head(documents)
         IN  IF text_field \notin DOMAIN doc
             THEN EmbedLoop(token, Tail(documents), Tail(apis), text_field,
                      [acc EXCEPT !.failed_docs =
                          Append(@, [doc |-> doc,
                                     reason |-> Message("Missing text field '{}'", text_field)])])
             ELSE LET e == EmbeddingTools_generate_embedding(token, doc[text_field], Head(apis))
                      embedding_result == e.out.value
                  IN  IF embedding_result.status # "success"
                      THEN EmbedLoop(token, Tail(documents), Tail(apis), text_field,
                               [acc EXCEPT !.failed_docs =
                                    Append(@, [doc |-> doc, reason |-> embedding_result.message]),
                                           !.calls = @ \o e.calls])
                      ELSE EmbedLoop(token, Tail(documents), Tail(apis), text_field,
                               [acc EXCEPT !.processed_docs =
                                    Append(@, Put(doc, VECTOR_FIELD, embedding_result.embedding)),
                                           !.calls = @ \o e.calls])

\* The bulk body with the "_id" left in the document.
RECURSIVE BulkData_keep_id(_)
BulkData_keep_id(processed_docs) ==
    IF processed_docs = <<>> THEN <<>>
    ELSE LET doc == Head(processed_docs)
         IN  IF "_id" \in DOMAIN doc
             THEN <<[index |-> [_index |-> IndexName, _id |-> doc._id]], doc>>
                      \o BulkData_keep_id(Tail(processed_docs))
             ELSE <<[index |-> [_index |-> IndexName]], doc>>
                      \o BulkData_keep_id(Tail(processed_docs))

\* Lines 101-109: an action header, then the document (without its "_id").
RECURSIVE BulkData(_)
BulkData(processed_docs) ==
    IF processed_docs = <<>> THEN <<>>
    ELSE LET doc == Head(processed_docs)
         IN  IF "_id" \in DOMAIN doc
             THEN <<[index |-> [_index |-> IndexName, _id |-> doc._id]],
                    Without(doc, {"_id"})>> \o BulkData(Tail(processed_docs))
             ELSE <<[index |-> [_index |-> IndexName]], doc>>
                      \o BulkData(Tail(processed_docs))

\* The store applies a bulk body pair by pair; a header without an id gets a generated
\* one, and an absent index is created as by any first write (no mapping).
RECURSIVE StoreBulkItems(_, _, _)
StoreBulkItems(st, body, refresh) ==
    IF body = <<>> THEN st
    ELSE LET header == body[1].index
             given == "_id" \in DOMAIN header
             id == IF given THEN header._id ELSE AutoIds[st.nauto + 1]
             st2 == StoreIndex(st, id, body[2], refresh)
         IN  StoreBulkItems(IF given THEN st2 ELSE [st2 EXCEPT !.nauto = @ + 1],
                            SubSeq(body, 3, Len(body)), refresh)

StoreBulk(st, body, refresh) ==
    StoreBulkItems(IF IndicesExists(st) THEN st ELSE IndicesCreate(st, NoBody), body, refresh)

StoreBulkResponse(rejected) ==
    [errors |-> rejected,
     items |-> IF rejected THEN <<[index |-> [status |-> 400]]>> ELSE <<>>]

BulkCall(body, refresh) == [api |-> "bulk", body |-> body, refresh |-> refresh]

\* bulk_index_with_embeddings without the check of lines 90-95.
bulk_index_with_embeddings_unguarded(st, token, documents, apis, fault) ==
    LET loop == EmbedLoop(token, documents, apis, "text",
                          [processed_docs |-> <<>>, failed_docs |-> <<>>, calls |-> <<>>])
        bulk_data == BulkData(loop.processed_docs)
        calls == Append(loop.calls, BulkCall(bulk_data, TRUE))
    IN  IF fault.call = "bulk" /\ fault # Rejecting
        THEN Result(Ret([status |-> "error",
                         message |-> Message("Bulk indexing error: ", ExcText)]), st, calls)
        ELSE Result(Ret([status |-> "success",
                         response |-> StoreBulkResponse(FALSE),
                         processed_count |-> Len(loop.processed_docs),
                         failed_count |-> Len(loop.failed_docs),
                         failed_docs |-> IF loop.failed_docs # <<>>
                                         THEN Some(loop.failed_docs) ELSE None]),
                    StoreBulk(st, bulk_data, TRUE), calls)

bulk_index_with_embeddings(st, token, documents, apis, fault) ==
    LET loop == EmbedLoop(token, documents, apis, "text",
                          [processed_docs |-> <<>>, failed_docs |-> <<>>, calls |-> <<>>])
        processed_docs == loop.processed_docs
        failed_docs == loop.failed_docs
    IN  IF processed_docs = <<>>
        THEN Result(Ret([status |-> "error",
                         message |-> Message("No documents were processed successfully", ""),
                         failed_docs |-> failed_docs]), st, loop.calls)
        ELSE LET bulk_data == BulkData(processed_docs)
                 calls == Append(loop.calls, BulkCall(bulk_data, TRUE))
             IN  IF fault.call = "bulk" /\ fault # Rejecting
                 THEN Result(Ret([status |-> "error",
                                  message |-> Message("Bulk indexing error: ", ExcText)]),
                             st, calls)
                 ELSE Result(Ret([status |-> "success",
                                  response |-> StoreBulkResponse(fault = Rejecting),
                                  processed_count |-> Len(processed_docs),
                                  failed_count |-> Len(failed_docs),
                                  failed_docs |-> IF failed_docs # <<>>
                                                  THEN Some(failed_docs) ELSE None]),
                             StoreBulk(st, IF fault = Rejecting
                                           THEN SubSeq(bulk_data, 3, Len(bulk_data))
                                           ELSE bulk_data, TRUE),
                             calls)

(********************** doc_ingest.py: the ingestion pipeline **************)
\* What open/read and the text splitter do with the file: the file is read and split
\* into some number of chunks (none for an empty file), or one of the two raises.
FileOutcomes ==
    { [read |-> "ok", split |-> "ok",
       chunks |-> [i \in 1..m |-> IF i % 2 = 1 THEN "t1" ELSE "t2"]] : m \in 0..MaxBulk }
    \cup { [read |-> "FileNotFoundError", split |-> "unused", chunks |-> <<>>],
           [read |-> "UnicodeDecodeError", split |-> "unused", chunks |-> <<>>],
           [read |-> "ok", split |-> "ValueError", chunks |-> <<>>] }

basename(file_path) == IF file_path = "dir/f.txt" THEN "f.txt" ELSE file_path

\* Lines 190-205: one document per chunk, numbered from 0.
ChunkDocuments(file_path, metadata, chunks) ==
    LET base_metadata == Put(Put(metadata, "source", file_path), "filename", basename(file_path))
    IN  [i \in 1..Len(chunks) |->
            Put(Put(EmptyDict, "text", chunks[i]),
                "metadata", Put(Put(base_metadata, "chunk_index", i - 1),
                                "chunk_count", Len(chunks)))]

process_file_except(text) == [status |-> "error", message |-> Message("{}", text)]

\* process_file going on with the chunk produced before the splitter raised.
process_file_partial(st, token, file_path, metadata, file, apis, fault) ==
    LET c == create_index_if_not_exists(st, fault)
    IN  IF c.out.raised THEN Result(Ret(process_file_except(c.out.exc.text)), c.st, c.calls)
        ELSE IF file.read # "ok" THEN Result(Ret(process_file_except(file.read)), c.st, c.calls)
        ELSE LET partial == file.split # "ok" /\ c.st.nauto < Len(AutoIds)
                 documents == ChunkDocuments(file_path, metadata,
                                             IF partial THEN <<"t1">> ELSE file.chunks)
                 answers == IF partial
                            THEN <<[transport |-> "ok", http |-> 200,
                                    json |-> Put(EmptyDict, "data",
                                        <<Put(EmptyDict, "embedding", Vec(VECTOR_DIMENSION))>>)]>>
                            ELSE apis
                 b == bulk_index_with_embeddings(c.st, token, documents, answers, fault)
             IN  [b EXCEPT !.calls = c.calls \o @]

process_file(st, token, file_path, metadata, file, apis, fault) ==
    LET c == create_index_if_not_exists(st, fault)
    IN  IF c.out.raised THEN Result(Ret(process_file_except(c.out.exc.text)), c.st, c.calls)
        ELSE IF file.read # "ok" THEN Result(Ret(process_file_except(file.read)), c.st, c.calls)
        ELSE IF file.split # "ok" THEN Result(Ret(process_file_except(file.split)), c.st, c.calls)
        ELSE LET documents == ChunkDocuments(file_path, metadata, file.chunks)
                 b == bulk_index_with_embeddings(c.st, token, documents, apis, fault)
             IN  [b EXCEPT !.calls = c.calls \o @]

(******************************* inputs ************************************)
\* The processes that use the store at the same time.
Procs == {1, 2}

Idle == [pc |-> "idle", op |-> "none", args |-> <<>>, out |-> Ret("None"), calls |-> <<>>]

Scores == {3, 7}

Thresholds == {3, 5}

\* The documents a caller hands to the gateway directly.
Documents ==
    { Put(Put(EmptyDict, "text", "t1"), VECTOR_FIELD, Vec(VECTOR_DIMENSION)),
      Put(Put(Put(EmptyDict, "text", "t2"), "source", "f"), VECTOR_FIELD, Vec(VECTOR_DIMENSION)) }

\* The documents a caller hands to the bulk indexer: without an id, with an id, and
\* without the text field.
BulkDocuments ==
    { Put(EmptyDict, "text", "t1"),
      Put(Put(Put(EmptyDict, "text", "t2"), "source", "f"), "_id", "X"),
      Put(Put(EmptyDict, "source", "f"), "_id", "X") }


MatchAllQuery == [size |-> 0, match_all |-> TRUE, excludes |-> {}]

\* The engine ranks by descending score; a search that is sorted by something else
\* carries no scores at all.
Rankings(st, size, scores) ==
    { r \in SeqsUpTo([id : DOMAIN st.visible, score : {None} \cup {Some(x) : x \in scores}], size) :
        /\ \A i, j \in 1..Len(r) : i # j => r[i].id # r[j].id
        /\ \/ \A i \in 1..Len(r) : r[i].score = None
           \/ /\ \A i \in 1..Len(r) : r[i].score # None
              /\ \A i \in 1..(Len(r) - 1) : r[i].score[1] >= r[i + 1].score[1] }

\* The fault as far as the call it names was issued.
Observed(fault, calls) ==
    IF \E i \in 1..Len(calls) : calls[i].api = fault.call THEN fault ELSE NoFault

\* The answers of the embedding API to the requests that were made.
ObservedApi(api, calls) ==
    IF \E i \in 1..Len(calls) : calls[i].api = "requests.post" THEN <<api>> ELSE <<>>

Requests(calls, api) == SelectSeq(calls, LAMBDA c : c.api = api)

AutoLeft == Len(AutoIds) - nauto

EmbeddingSucceeds(api) ==
    /\ api.transport = "ok"
    /\ api.http = 200
    /\ Get(api.json, "data", <<EmptyDict>>) # <<>>

\* The positions, in input order, of the documents that were embedded.
EmbeddedPositions(documents, apis) ==
    SelectSeq([i \in 1..Len(documents) |-> i],
              LAMBDA i : "text" \in DOMAIN documents[i] /\ EmbeddingSucceeds(apis[i]))

(******************************* actions ***********************************)
Init ==
    /\ embedding_api_token \in Tokens
    /\ index = <<>>
    /\ docs = EmptyDict
    /\ visible = EmptyDict
    /\ nauto = 0
    /\ session_id = ""
    /\ inflight = [p \in Procs |-> Idle]
    /\ s3 = [buckets |-> {}, objects |-> EmptyDict]
    /\ last = [op |-> "start", args |-> <<>>, fault |-> NoFault, api |-> <<>>,
               out |-> Ret("None"), calls |-> <<>>]

Done(op, args, fault, api, r) ==
    /\ index' = r.st.index
    /\ docs' = r.st.docs
    /\ visible' = r.st.visible
    /\ nauto' = r.st.nauto
    /\ last' = [op |-> op, args |-> args, fault |-> Observed(fault, r.calls),
                api |-> api, out |-> r.out, calls |-> r.calls]
    /\ UNCHANGED <<embedding_api_token, session_id, inflight, s3>>

\* The engine ranks only when the search request reaches it.
RankingsIf(asked, st, size, scores) == IF asked THEN Rankings(st, size, scores) ELSE {<<>>}

SearchDocuments ==
    \E size \in 1..MaxK, fault \in FaultsAt({"indices.exists", "search"}) :
    \E ranking \in RankingsIf(fault = NoFault /\ IndicesExists(Store), Store, size, {7}) :
        Done("search_documents", [query |-> MatchAllQuery, size |-> size], fault, <<>>,
             search_documents(Store, MatchAllQuery, size, fault, ranking))

WriteDocument ==
    \E document_id \in ExplicitIds, document \in Documents,
       fault \in FaultsAt({"indices.exists", "indices.create", "index"}) :
        Done("write_document", [document_id |-> document_id, document |-> document], fault, <<>>,
             write_document(Store, document_id, document, fault))

IndexDocument ==
    /\ AutoLeft >= 1
    /\ \E document \in Documents,
          fault \in FaultsAt({"indices.exists", "indices.create", "index"}) :
        Done("index_document", [document |-> document], fault, <<>>,
             index_document(Store, document, fault))

DeleteDocument ==
    \E document_id \in ExplicitIds \cup {"Y"} \cup DOMAIN docs,
       fault \in FaultsAt({"indices.exists", "delete"}) :
        Done("delete_document", [document_id |-> document_id], fault, <<>>,
             delete_document(Store, document_id, fault))

CreateIndexIfNotExists ==
    \E fault \in FaultsAt({"indices.exists", "indices.create"}) :
        Done("create_index_if_not_exists", <<>>, fault, <<>>,
             create_index_if_not_exists(Store, fault))

\* The answers of the embedding API to a caller that writes: a vector of the expected
\* length, or an HTTP error.
WriterApiResponses ==
    { a \in ApiResponses :
        \/ a.http = 500
        \/ a.http = 200 /\ a.json = Put(EmptyDict, "data",
                                         <<Put(EmptyDict, "embedding", Vec(VECTOR_DIMENSION))>>) }

\* One answer per document; the API is asked only for a document with text, and only
\* when a token is configured.
ApiAnswers(token, documents, responses) ==
    { apis \in [1..Len(documents) -> responses \cup {NoApi}] :
        \A i \in 1..Len(documents) :
            apis[i] = NoApi <=> (token = "" \/ "text" \notin DOMAIN documents[i]) }

\* The bulk request is made only when a document was embedded.
BulkFaultsIf(asked) ==
    IF asked THEN {NoFault, [call |-> "bulk", type |-> "ConnectionError"], Rejecting}
    ELSE {NoFault}

BulkIndexWithEmbeddings ==
    \E documents \in SeqsUpTo(BulkDocuments, MaxBulk) :
    \E apis \in ApiAnswers(embedding_api_token, documents, WriterApiResponses) :
    \E fault \in BulkFaultsIf(EmbeddedPositions(documents, apis) # <<>>) :
        /\ Cardinality({i \in 1..Len(documents) : "_id" \notin DOMAIN documents[i]}) <= AutoLeft
        /\ Done("bulk_index_with_embeddings", [documents |-> documents], fault, apis,
                bulk_index_with_embeddings(Store, embedding_api_token, documents, apis, fault))

Next ==
    \/ SearchDocuments
    \/ WriteDocument
    \/ IndexDocument
    \/ DeleteDocument
    \/ CreateIndexIfNotExists
    \/ BulkIndexWithEmbeddings

Spec == Init /\ [][Next]_vars

(************************ the ingestion pipeline ***************************)
\* The index is created only when absent, and the bulk request is made only when a
\* chunk was embedded.
IngestFaultsIf(st, asked) ==
    BulkFaultsIf(asked)
    \cup [call : IF IndicesExists(st) THEN {"indices.exists"}
                 ELSE {"indices.exists", "indices.create"},
          type : {"ConnectionError"}]

\* The store generates an id for every chunk it accepts.
ProcessFile ==
    \E file_path \in {"dir/f.txt"}, metadata \in {EmptyDict, Put(EmptyDict, "author", "a")},
       file \in FileOutcomes :
    \E apis \in ApiAnswers(embedding_api_token,
                            ChunkDocuments(file_path, metadata, file.chunks), WriterApiResponses) :
    \E fault \in IngestFaultsIf(Store,
           EmbeddedPositions(ChunkDocuments(file_path, metadata, file.chunks), apis) # <<>>) :
        /\ Len(EmbeddedPositions(ChunkDocuments(file_path, metadata, file.chunks), apis)) <= AutoLeft
        /\ Done("process_file", [file_path |-> file_path, metadata |-> metadata, file |-> file],
                fault, apis,
                process_file(Store, embedding_api_token, file_path, metadata, file, apis, fault))

NextIngest ==
    \/ ProcessFile
    \/ CreateIndexIfNotExists
    \/ BulkIndexWithEmbeddings

SpecIngest == Init /\ [][NextIngest]_vars

(************************* the tools of app.py *****************************)
ToolFaults(callNames) == {NoFault} \cup [call : callNames, type : {"ConnectionError"}]

GenerateEmbedding ==
    \E text \in Texts, api \in ApiResponses :
        LET e == generate_embedding(embedding_api_token, text, api)
        IN  Done("generate_embedding", [text |-> text], NoFault, ObservedApi(api, e.calls),
                 Result(e.out, Store, e.calls))

\* The store is reached only with a token, an embedding and metadata that is an object.
ReachesStore(token, api, metadata) ==
    /\ token # ""
    /\ ~embedding_try(api, DEFAULT_MODEL).raised
    /\ metadata = "{}" \/ (~json_loads(metadata).raised /\ json_loads(metadata).value.type = "dict")

EmbeddingToolsGenerateEmbedding ==
    \E text \in Texts, api \in ApiResponses :
        LET e == EmbeddingTools_generate_embedding(embedding_api_token, text, api)
        IN  Done("EmbeddingTools.generate_embedding", [text |-> text], NoFault,
                 ObservedApi(api, e.calls), Result(e.out, Store, e.calls))

IndexTextWithEmbeddingOn(texts, metadatas, responses) ==
    \E text \in texts, document_id \in ExplicitIds \cup {""}, metadata \in metadatas,
       api \in responses :
    \E fault \in IF ReachesStore(embedding_api_token, api, metadata)
                 THEN ToolFaults({"indices.exists", "indices.create", "index"}) ELSE {NoFault} :
        /\ document_id = "" => AutoLeft >= 1
        /\ LET r == index_text_with_embedding(Store, embedding_api_token, text, document_id,
                                              metadata, api, fault)
           IN  Done("index_text_with_embedding",
                    [text |-> text, document_id |-> document_id, metadata |-> metadata],
                    fault, ObservedApi(api, r.calls), r)

\* The answers of the embedding API to a search: any answer that arrives with data.
SearchApiResponses ==
    { a \in ApiResponses : a.transport = "ok" /\ a.json # Put(EmptyDict, "data", <<>>) }

IndexTextWithEmbedding == IndexTextWithEmbeddingOn(Texts, MetadataStrings, WriterApiResponses)

TextSimilaritySearch ==
    \E text \in {"t1"}, k \in 1..MaxK, score \in Thresholds, api \in SearchApiResponses :
    \E fault \in IF ReachesStore(embedding_api_token, api, "{}")
                    /\ len(embedding_try(api, DEFAULT_MODEL).value.embedding) = VECTOR_DIMENSION
                 THEN ToolFaults({"indices.exists", "search"}) ELSE {NoFault} :
    \E ranking \in RankingsIf(/\ ReachesStore(embedding_api_token, api, "{}")
                              /\ len(embedding_try(api, DEFAULT_MODEL).value.embedding)
                                     = VECTOR_DIMENSION
                              /\ fault = NoFault /\ IndicesExists(Store), Store, k, Scores) :
        LET r == text_similarity_search(Store, embedding_api_token, text, k, score, api,
                                        fault, ranking)
        IN  Done("text_similarity_search", [text |-> text, k |-> k, score |-> score],
                 fault, ObservedApi(api, r.calls), r)

NextTools ==
    \/ GenerateEmbedding
    \/ EmbeddingToolsGenerateEmbedding
    \/ IndexTextWithEmbedding
    \/ TextSimilaritySearch
    \/ CreateIndexIfNotExists

SpecTools == Init /\ [][NextTools]_vars

(****************** index_text_with_embedding, any API answer **************)
\* The tool with every answer the embedding API can give, for one text.
IndexTextWithAnyEmbedding ==
    IndexTextWithEmbeddingOn({"t1"}, {"{}", "{source:f}", "{bad"}, ApiResponses)

NextWrites ==
    \/ IndexTextWithAnyEmbedding
    \/ CreateIndexIfNotExists
    \/ DeleteDocument

SpecWrites == Init /\ [][NextWrites]_vars

(************ strands_agent_test/similarity_search.py: MCP client **********)
SessionIds == {"s1", "s2"}

\* The JSON bodies of the endpoint: a result with content, with empty content, without
\* content; an error object; null; and a body that is not JSON.
ResultItem == [type |-> "text", text |-> "results"]

McpBodies ==
    { PyValue("dict", Put(EmptyDict, "result", Put(EmptyDict, "content", <<ResultItem>>))),
      PyValue("dict", Put(EmptyDict, "result", Put(EmptyDict, "content", <<>>))),
      PyValue("dict", Put(EmptyDict, "result", EmptyDict)),
      PyValue("dict", Put(EmptyDict, "error", "failed")),
      PyValue("NoneType", EmptyDict),
      PyValue("invalid", EmptyDict) }

\* What one POST to the endpoint can do: fail in transport (connection error, timeout),
\* or answer with a status code, headers (with or without mcp-session-id) and a body.
HttpResponses ==
    [transport : {"ok"}, status_code : {200},
     headers : {EmptyDict} \cup { Put(EmptyDict, "mcp-session-id", v) : v \in SessionIds },
     body : McpBodies]
    \cup [transport : {"ok"}, status_code : {500},
          headers : {EmptyDict} \cup { Put(EmptyDict, "mcp-session-id", v) : v \in SessionIds },
          body : {PyValue("dict", Put(EmptyDict, "error", "failed"))}]
    \cup [transport : {"ConnectionError", "Timeout"}, status_code : {500},
          headers : {EmptyDict}, body : {PyValue("invalid", EmptyDict)}]

NoHttp ==
    [transport |-> "unused", status_code |-> 500, headers |-> EmptyDict,
     body |-> PyValue("invalid", EmptyDict)]

McpRequest(method, params, sid) ==
    [api |-> "requests.post", method |-> method, params |-> params,
     headers |-> IF sid # "" THEN Put(EmptyDict, "Mcp-Session-Id", sid) ELSE EmptyDict]

\* make_request keeping the session id of a response only when its status is 200.
MCPClient_make_request_ok_only(sid, method, params, http) ==
    LET request == McpRequest(method, params, sid)
    IN  IF http.transport # "ok"
        THEN [status_code |-> None,
              response |-> PyValue("dict", Put(EmptyDict, "error", http.transport)),
              session_id |-> sid, request |-> request]
        ELSE LET sid2 == IF "mcp-session-id" \in DOMAIN http.headers /\ http.status_code = 200
                         THEN http.headers["mcp-session-id"] ELSE sid
             IN  IF http.body.type = "invalid"
                 THEN [status_code |-> None,
                       response |-> PyValue("dict", Put(EmptyDict, "error", "JSONDecodeError")),
                       session_id |-> sid2, request |-> request]
                 ELSE [status_code |-> Some(http.status_code), response |-> http.body,
                       session_id |-> sid2, request |-> request]

\* make_request: the tuple it returns, the session id it leaves in the client, and the
\* request it sent.
MCPClient_make_request(sid, method, params, http) ==
    LET request == McpRequest(method, params, sid)
        error == PyValue("dict", Put(EmptyDict, "error", http.transport))
    IN  IF http.transport # "ok"
        THEN [status_code |-> None, response |-> error, session_id |-> sid, request |-> request]
        ELSE LET sid2 == IF "mcp-session-id" \in DOMAIN http.headers
                         THEN http.headers["mcp-session-id"] ELSE sid
             IN  IF http.body.type = "invalid"
                 THEN [status_code |-> None,
                       response |-> PyValue("dict", Put(EmptyDict, "error", "JSONDecodeError")),
                       session_id |-> sid2, request |-> request]
                 ELSE [status_code |-> Some(http.status_code), response |-> http.body,
                       session_id |-> sid2, request |-> request]

\* "result" in response: a TypeError when the body is null.
HasResult(response) ==
    IF response.type = "dict" THEN Ret("result" \in DOMAIN response.v)
    ELSE Raise("TypeError", "argument of type 'NoneType' is not iterable")

ClientResult(out, sid, calls) == [out |-> out, session_id |-> sid, calls |-> calls]

InitializeParams == [protocolVersion |-> "2024-11-05"]

\* initialize accepting every answer with status 200.
MCPClient_initialize_lenient(sid, http) ==
    LET m == MCPClient_make_request(sid, "initialize", InitializeParams, http)
    IN  ClientResult(Ret(m.status_code = Some(200)), m.session_id, <<m.request>>)

MCPClient_initialize(sid, http) ==
    LET m == MCPClient_make_request(sid, "initialize", InitializeParams, http)
    IN  ClientResult(IF m.status_code # Some(200) THEN Ret(FALSE) ELSE HasResult(m.response),
                     m.session_id, <<m.request>>)

MCPClient_similarity_search(sid, text, k, score, http) ==
    LET m == MCPClient_make_request(sid, "tools/call",
                 [name |-> "textSimilaritySearch",
                  arguments |-> [text |-> text, k |-> k, score |-> score]], http)
        has == IF m.status_code # Some(200) THEN Ret(FALSE) ELSE HasResult(m.response)
        failed == Ret(Put(EmptyDict, "error", Message("API call failed: ", "response")))
    IN  ClientResult(
            IF has.raised THEN has
            ELSE IF ~has.value THEN failed
            ELSE IF "content" \notin DOMAIN m.response.v.result THEN Raise("KeyError", "'content'")
            ELSE IF m.response.v.result.content = <<>>
            THEN Ret(Put(EmptyDict, "error", Message("No content in response", "")))
            ELSE Ret(m.response.v.result.content[1]),
            m.session_id, <<m.request>>)

ToolInputs ==
    { [text |-> "t1", api_endpoint |-> "url", auth_token |-> "tok"],
      [text |-> "t1", k |-> 2, score |-> 3, api_endpoint |-> "url", auth_token |-> "tok"],
      [text |-> "t1", auth_token |-> "tok"] }

RequiredKeys == {"text", "api_endpoint", "auth_token"}

ToolError(tool_use_id, prefix, text) ==
    [toolUseId |-> tool_use_id, status |-> "error", content |-> <<[text |-> Message(prefix, text)]>>]

\* The tool: a new client (no session id), initialize, then the search.  responses[1]
\* answers the first request and responses[2] the second.
similarity_search(tool_use_id, tool_input, responses) ==
    IF RequiredKeys \ DOMAIN tool_input # {}
    THEN ClientResult(Ret(ToolError(tool_use_id, "Error during similarity search: ", "KeyError")),
                      "", <<>>)
    ELSE LET init == MCPClient_initialize("", responses[1])
         IN  IF init.out.raised
             THEN ClientResult(Ret(ToolError(tool_use_id, "Error during similarity search: ",
                                             init.out.exc.type)), init.session_id, init.calls)
             ELSE IF ~init.out.value
             THEN ClientResult(Ret(ToolError(tool_use_id, "Failed to initialize MCP session", "")),
                               init.session_id, init.calls)
             ELSE LET search == MCPClient_similarity_search(init.session_id, tool_input.text,
                                    Get(tool_input, "k", 5), Get(tool_input, "score", 0),
                                    responses[2])
                      calls == init.calls \o search.calls
                  IN  IF search.out.raised
                      THEN ClientResult(Ret(ToolError(tool_use_id,
                                                      "Error during similarity search: ",
                                                      search.out.exc.type)),
                                        search.session_id, calls)
                      ELSE ClientResult(Ret([toolUseId |-> tool_use_id, status |-> "success",
                                             results |-> search.out.value]),
                                        search.session_id, calls)

(*************************** the client's actions **************************)
ClientDone(op, args, responses, r) ==
    /\ session_id' = r.session_id
    /\ last' = [op |-> op, args |-> args, fault |-> NoFault,
                api |-> SubSeq(responses, 1, Len(r.calls)), out |-> r.out, calls |-> r.calls]
    /\ UNCHANGED <<embedding_api_token, index, docs, visible, nauto, inflight, s3>>

\* MCPClient(endpoint, auth_token)
NewClient ==
    ClientDone("MCPClient", <<>>, <<>>, ClientResult(Ret("None"), "", <<>>))

ClientInitialize ==
    \E http \in HttpResponses :
        ClientDone("MCPClient.initialize", <<>>, <<http>>, MCPClient_initialize(session_id, http))

ClientSimilaritySearch ==
    \E http \in HttpResponses :
        ClientDone("MCPClient.similarity_search", [text |-> "t1", k |-> 5, score |-> 0], <<http>>,
                   MCPClient_similarity_search(session_id, "t1", 5, 0, http))

\* A request is answered only if it is sent.
FirstResponses(tool_input) ==
    IF RequiredKeys \subseteq DOMAIN tool_input THEN HttpResponses ELSE {NoHttp}

SecondResponses(tool_input, first) ==
    IF /\ RequiredKeys \subseteq DOMAIN tool_input
       /\ ~MCPClient_initialize("", first).out.raised
       /\ MCPClient_initialize("", first).out.value
    THEN HttpResponses ELSE {NoHttp}

\* The tool works on a client of its own and leaves the other client as it is.
SimilaritySearchTool ==
    \E tool_input \in ToolInputs :
    \E first \in FirstResponses(tool_input) :
    \E second \in SecondResponses(tool_input, first) :
        LET r == similarity_search("use1", tool_input, <<first, second>>)
        IN  ClientDone("similarity_search", tool_input, <<first, second>>,
                       [r EXCEPT !.session_id = session_id])

NextClient ==
    \/ NewClient
    \/ ClientInitialize
    \/ ClientSimilaritySearch
    \/ SimilaritySearchTool

SpecClient == Init /\ [][NextClient]_vars

(********************* concurrent writers of one store *********************)
\* The store's answer to indices.create: it refuses to create an index that exists.
StoreCreate(st, body) ==
    IF IndicesExists(st)
    THEN Result(Raise("RequestError", "resource_already_exists_exception"), st, <<CreateCall(body)>>)
    ELSE Result(Ret("acknowledged"), IndicesCreate(st, body), <<CreateCall(body)>>)

RaceOps == {"write_document", "index_document", "process_file"}

\* The body each operation creates the index with.
CreateBody(op) == IF op = "process_file" THEN mapping ELSE NoBody

\* The error each operation turns an exception of its store calls into.
RaceExcept(op, exc) ==
    IF op = "process_file" THEN process_file_except(exc.text) ELSE write_except(exc)

GoodApi ==
    [transport |-> "ok", http |-> 200,
     json |-> Put(EmptyDict, "data", <<Put(EmptyDict, "embedding", Vec(VECTOR_DIMENSION))>>)]

\* What follows the index check and creation: the write of the document, or, in an
\* ingestion run, the embedding and bulk write of the file's one chunk.
RaceWriteStep(st, token, op, document) ==
    IF op = "process_file"
    THEN bulk_index_with_embeddings(st, token, ChunkDocuments("dir/f.txt", EmptyDict, <<"t1">>),
                                    <<IF token = "" THEN NoApi ELSE GoodApi>>, NoFault)
    ELSE LET id == IF op = "write_document" THEN "X" ELSE AutoIds[st.nauto + 1]
             st3 == StoreIndex(st, id, document, TRUE)
         IN  Result(Ret([status |-> "success",
                         response |-> [_id |-> id,
                                       result |-> IF id \in DOMAIN st.docs
                                                  THEN "updated" ELSE "created"]]),
                    IF op = "write_document" THEN st3 ELSE [st3 EXCEPT !.nauto = @ + 1],
                    <<IndexCall(IF op = "write_document" THEN id ELSE "", document, TRUE)>>)

\* The calls in progress that will have the store generate an id.
AutoPending == Cardinality({ p \in Procs : inflight[p].op \in {"index_document", "process_file"} })

\* indices.exists: the first store request of write_document, index_document and
\* create_index_if_not_exists.
RaceCheck(p) ==
    /\ inflight[p].pc = "idle"
    /\ \E op \in RaceOps, document \in Documents :
          /\ op # "write_document" => AutoPending < AutoLeft
          /\ inflight' = [inflight EXCEPT ![p] =
                 [pc |-> IF IndicesExists(Store) THEN "write" ELSE "create",
                  op |-> op,
                  args |-> IF op = "process_file" THEN <<>> ELSE <<document>>,
                  out |-> Ret("None"),
                  calls |-> <<ExistsCall>>]]
    /\ UNCHANGED <<embedding_api_token, index, docs, visible, nauto, session_id, s3, last>>

\* indices.create, issued because the check answered that the index was absent.
RaceCreate(p) ==
    /\ inflight[p].pc = "create"
    /\ LET c == StoreCreate(Store, CreateBody(inflight[p].op))
       IN  /\ index' = c.st.index
           /\ inflight' = [inflight EXCEPT ![p] =
                  IF c.out.raised
                  THEN [@ EXCEPT !.pc = "done",
                                 !.out = Ret(RaceExcept(inflight[p].op, c.out.exc)),
                                 !.calls = @ \o c.calls]
                  ELSE [@ EXCEPT !.pc = "write", !.calls = @ \o c.calls]]
    /\ UNCHANGED <<embedding_api_token, docs, visible, nauto, session_id, s3, last>>

RaceWrite(p) ==
    /\ inflight[p].pc = "write"
    /\ LET w == RaceWriteStep(Store, embedding_api_token, inflight[p].op,
                              IF inflight[p].args = <<>> THEN EmptyDict ELSE inflight[p].args[1])
       IN  /\ index' = w.st.index
           /\ docs' = w.st.docs
           /\ visible' = w.st.visible
           /\ nauto' = w.st.nauto
           /\ inflight' = [inflight EXCEPT ![p] =
                  [@ EXCEPT !.pc = "done", !.out = w.out, !.calls = @ \o w.calls]]
    /\ UNCHANGED <<embedding_api_token, session_id, s3, last>>

\* The call returns its result to its caller.
RaceReturn(p) ==
    /\ inflight[p].pc = "done"
    /\ last' = [op |-> inflight[p].op, args |-> inflight[p].args, fault |-> NoFault,
                api |-> <<>>, out |-> inflight[p].out, calls |-> inflight[p].calls]
    /\ inflight' = [inflight EXCEPT ![p] = Idle]
    /\ UNCHANGED <<embedding_api_token, index, docs, visible, nauto, session_id, s3>>

NextRace ==
    \/ \E p \in Procs : RaceCheck(p)
    \/ \E p \in Procs : RaceCreate(p)
    \/ \E p \in Procs : RaceWrite(p)
    \/ \E p \in Procs : RaceReturn(p)

SpecRace == Init /\ [][NextRace]_vars

(*************** s3_upload_server/src/server.py: the upload tool ***********)
DEFAULT_AWS_REGION == "cn-northwest-1"

\* The names bound at module level in server.py: what a function body can refer to
\* besides its own parameters and locals.
ModuleGlobals ==
    {"json", "mimetypes", "os", "Optional", "Dict", "Any", "FastMCP", "Context", "boto3",
     "ClientError", "NoCredentialsError", "logging", "DEFAULT_AWS_REGION", "logger", "mcp",
     "get_aws_credentials", "get_aws_region", "get_account_id", "get_content_type",
     "create_bucket_if_not_exists", "upload_file_to_s3", "upload_file"}

\* The environment variables the server reads: "" is unset or empty where the code
\* does not tell the two apart, None is unset.
DefaultEnv ==
    [AWS_ACCESS_KEY_ID |-> "AKIA", AWS_SECRET_ACCESS_KEY |-> "secret",
     AWS_SESSION_TOKEN |-> "", EXPIRE_HOURS |-> None,
     AWS_DEFAULT_REGION |-> None, AWS_REGION |-> None]

UploadEnvs ==
    { DefaultEnv,
      [DefaultEnv EXCEPT !.AWS_ACCESS_KEY_ID = ""],
      [DefaultEnv EXCEPT !.AWS_SECRET_ACCESS_KEY = ""],
      [DefaultEnv EXCEPT !.AWS_SESSION_TOKEN = "session"],
      [DefaultEnv EXCEPT !.EXPIRE_HOURS = Some("24")],
      [DefaultEnv EXCEPT !.EXPIRE_HOURS = Some("abc")],
      [DefaultEnv EXCEPT !.AWS_DEFAULT_REGION = Some("us-east-1")],
      [DefaultEnv EXCEPT !.AWS_REGION = Some("us-east-1")] }

AccountId == "123"

\* int(x) on the values EXPIRE_HOURS takes.
int(x) ==
    IF x = "24" THEN Ret(24)
    ELSE Raise("ValueError", Message("invalid literal for int() with base 10: ", x))

get_aws_credentials(env) ==
    LET expire_hours == IF env.EXPIRE_HOURS = None THEN Ret(144) ELSE int(env.EXPIRE_HOURS[1])
    IN  IF expire_hours.raised THEN expire_hours
        ELSE IF env.AWS_ACCESS_KEY_ID = "" \/ env.AWS_SECRET_ACCESS_KEY = ""
        THEN Raise("ValueError",
                   Message("AWS credentials not found in environment variables. Please set AWS_ACCESS_KEY_ID and AWS_SECRET_ACCESS_KEY.", ""))
        ELSE LET credentials == [aws_access_key_id |-> env.AWS_ACCESS_KEY_ID,
                                 aws_secret_access_key |-> env.AWS_SECRET_ACCESS_KEY]
             IN  Ret(IF env.AWS_SESSION_TOKEN # ""
                     THEN Put(credentials, "aws_session_token", env.AWS_SESSION_TOKEN)
                     ELSE credentials)

get_aws_region(env) ==
    IF env.AWS_DEFAULT_REGION # None THEN env.AWS_DEFAULT_REGION[1]
    ELSE IF env.AWS_REGION # None THEN env.AWS_REGION[1]
    ELSE DEFAULT_AWS_REGION

AwsCall(api, args) == [api |-> api, args |-> args]

\* The value and the AWS calls of a function that does not touch the object store.
Answer(out, calls) == [out |-> out, calls |-> calls]

get_account_id(env, region, fault) ==
    LET credentials == get_aws_credentials(env)
        call == AwsCall("get_caller_identity", [region_name |-> region])
    IN  IF credentials.raised
        THEN Answer(Raise("ValueError",
                          Message("Failed to get AWS account ID: ", credentials.exc.text.prefix)),
                    <<>>)
        ELSE IF fault.call = "get_caller_identity"
        THEN Answer(IF fault.type = "NoCredentialsError"
                    THEN Raise("ValueError",
                               Message("AWS credentials not configured. Please configure AWS credentials.", ""))
                    ELSE Raise("ValueError", Message("Failed to get AWS account ID: ", fault.type)),
                    <<call>>)
        ELSE Answer(Ret(AccountId), <<call>>)

\* mimetypes.guess_type by extension.
get_content_type(file_name) ==
    IF file_name = "a.txt" THEN "text/plain" ELSE "application/octet-stream"

create_bucket_if_not_exists(st, bucket_name, region, fault) ==
    LET head == AwsCall("head_bucket", [Bucket |-> bucket_name])
        create == AwsCall("create_bucket",
                          IF region = "us-east-1" THEN [Bucket |-> bucket_name]
                          ELSE [Bucket |-> bucket_name, LocationConstraint |-> region])
    IN  IF fault.call = "head_bucket"
        THEN IF fault.type = "ClientError"
             THEN Result(Raise("ValueError", Message("Failed to check bucket {}: ", "403")),
                         st, <<head>>)
             ELSE Result(Raise(fault.type, Message(fault.type, "")), st, <<head>>)
        ELSE IF bucket_name \in st.buckets THEN Result(Ret(TRUE), st, <<head>>)
        ELSE IF fault.call = "create_bucket"
        THEN Result(Raise("ValueError", Message("Failed to create bucket {}: ", fault.type)),
                    st, <<head, create>>)
        ELSE Result(Ret(TRUE), [st EXCEPT !.buckets = @ \cup {bucket_name}], <<head, create>>)

S3Key(folder, file_name) == <<folder, "/", file_name>>

PresignedUrl(bucket_name, s3_key, expires_in) ==
    [url |-> "presigned", Bucket |-> bucket_name, Key |-> s3_key, ExpiresIn |-> expires_in]

\* Lines 100-126.  The argument 3600*expire_hours of line 119 is evaluated before the
\* call of generate_presigned_url; expire_hours is neither a parameter nor a local of
\* this function, so it is looked up among the module's globals.
upload_file_to_s3(st, bucket_name, file_name, file_content, folder, fault) ==
    LET s3_key == S3Key(folder, file_name)
        content_type == get_content_type(file_name)
        put == AwsCall("put_object", [Bucket |-> bucket_name, Key |-> s3_key,
                                      Body |-> file_content, ContentType |-> content_type])
        sign == AwsCall("generate_presigned_url", [Bucket |-> bucket_name, Key |-> s3_key])
        st2 == [st EXCEPT !.objects = Put(@, s3_key, [Body |-> file_content,
                                                      ContentType |-> content_type])]
    IN  IF fault.call = "put_object"
        THEN Result(Raise("ValueError", Message("Failed to upload file to S3: ", fault.type)),
                    st, <<put>>)
        ELSE IF "expire_hours" \notin ModuleGlobals
        THEN Result(Raise("NameError", Message("name 'expire_hours' is not defined", "")),
                    st2, <<put>>)
        ELSE IF fault.call = "generate_presigned_url"
        THEN Result(Raise("ValueError", Message("Failed to upload file to S3: ", fault.type)),
                    st2, <<put, sign>>)
        ELSE Result(Ret(PresignedUrl(bucket_name, s3_key, 3600 * 144)), st2, <<put, sign>>)

BucketName(account_id) == <<"strands-agent-cn-demo-", account_id>>

\* json.dumps({"success": False, "error": str(e)})
FailureJson(exc) == [success |-> FALSE, error |-> exc.text]

upload_file(st, env, file_name, file_content, fault) ==
    LET credentials == get_aws_credentials(env)
    IN  IF credentials.raised THEN Result(Ret(FailureJson(credentials.exc)), st, <<>>)
        ELSE LET region == get_aws_region(env)
                 account_id == get_account_id(env, region, fault)
             IN  IF account_id.out.raised
                 THEN Result(Ret(FailureJson(account_id.out.exc)), st, account_id.calls)
                 ELSE LET bucket_name == BucketName(account_id.out.value)
                          b == create_bucket_if_not_exists(st, bucket_name, region, fault)
                      IN  IF b.out.raised
                          THEN Result(Ret(FailureJson(b.out.exc)), b.st, account_id.calls \o b.calls)
                          ELSE LET u == upload_file_to_s3(b.st, bucket_name, file_name,
                                                          file_content, "files", fault)
                                   calls == account_id.calls \o b.calls \o u.calls
                               IN  IF u.out.raised
                                   THEN Result(Ret(FailureJson(u.out.exc)), u.st, calls)
                                   ELSE Result(u.out, u.st, calls)

\* The AWS call that fails, if any, and how.
UploadFaults ==
    {NoFault}
    \cup [call : {"get_caller_identity", "head_bucket", "create_bucket", "put_object",
                  "generate_presigned_url"},
          type : {"ClientError"}]
    \cup { [call |-> "get_caller_identity", type |-> "NoCredentialsError"],
           [call |-> "head_bucket", type |-> "EndpointConnectionError"] }

FileNames == {"a.txt", "b"}

FileContents == {"c1", "c2"}

UploadFile ==
    \E env \in UploadEnvs, file_name \in FileNames, file_content \in FileContents,
       fault \in UploadFaults :
        LET r == upload_file(s3, env, file_name, file_content, fault)
        IN  /\ s3' = r.st
            /\ last' = [op |-> "upload_file",
                        args |-> [env |-> env, file_name |-> file_name,
                                  file_content |-> file_content],
                        fault |-> Observed(fault, r.calls), api |-> <<>>,
                        out |-> r.out, calls |-> r.calls]
            /\ UNCHANGED <<embedding_api_token, index, docs, visible, nauto, session_id, inflight>>

NextUpload == UploadFile

SpecUpload == Init /\ [][NextUpload]_vars

(******* serverless-mcp-setup/authorizer/app.py: the Lambda authorizer *****)
\* The strings presented and configured as tokens, each the sequence of its parts.
TokenStrings ==
    { <<>>, <<"tok">>, <<"Bearer ", "tok">>, <<"Bearer ">>, <<"Bearer ", "Bearer ", "tok">>,
      <<"other">>, <<"bearer ", "tok">>, <<"Bearer ", "other">>, <<"tok", "x">> }

\* MCP_AUTH_TOKEN: unset, or set to a string (the empty one included).
ConfiguredTokens == {None} \cup { Some(t) : t \in {<<>>, <<"tok">>, <<"Bearer ", "tok">>, <<"other">>} }

MethodArns == {"arn:1", "arn:2"}

\* The event of a token authorizer, with or without the authorizationToken key.
Events ==
    { [methodArn |-> arn] : arn \in MethodArns }
    \cup [methodArn : MethodArns, authorizationToken : TokenStrings]

startswith(str, prefix) == str # <<>> /\ Head(str) = prefix

\* str == value, where value is a string or None.
StrEquals(str, value) == value # None /\ str = value[1]

lambda_handler(expected_token, event) ==
    LET presented == Get(event, "authorizationToken", <<>>)
        token == IF startswith(presented, "Bearer ") THEN Tail(presented) ELSE presented
        effect == IF StrEquals(token, expected_token) THEN "Allow" ELSE "Deny"
    IN  [principalId |-> "mcp-user",
         policyDocument |-> [Version |-> "2012-10-17",
                             Statement |-> <<[Action |-> "execute-api:Invoke",
                                              Effect |-> effect,
                                              Resource |-> event.methodArn]>>]]

LambdaHandler ==
    \E expected_token \in ConfiguredTokens, event \in Events :
        /\ last' = [op |-> "lambda_handler",
                    args |-> [MCP_AUTH_TOKEN |-> expected_token, event |-> event],
                    fault |-> NoFault, api |-> <<>>,
                    out |-> Ret(lambda_handler(expected_token, event)), calls |-> <<>>]
        /\ UNCHANGED <<embedding_api_token, index, docs, visible, nauto, session_id, inflight, s3>>

NextAuthorizer == LambdaHandler

SpecAuthorizer == Init /\ [][NextAuthorizer]_vars

(******************************* claims ************************************)
Returned(status) == ~last.out.raised /\ last.out.value.status = status

Failed(prefix) == Returned("error") /\ last.out.value.message.prefix = prefix

\* C1 (as claimed): index_text_with_embedding and text_similarity_search never raise:
\* whatever the text, metadata string, k, score, embedding API answer and store
\* outcome, they return a result whose status is success or error.
C1_ToolsNeverRaise ==
    last.op \in {"index_text_with_embedding", "text_similarity_search"}
        => Returned("success") \/ Returned("error")

GatewayOps == {"search_documents", "write_document", "index_document", "delete_document"}

\* C2: every gateway operation returns, for every outcome of the store calls, a result
\* with status success or error, with a message whenever the status is error, and
\* never propagates an exception.
C2_GatewayReturnsResult ==
    last.op \in GatewayOps
        => /\ Returned("success") \/ Returned("error")
           /\ Returned("error") => "message" \in DOMAIN last.out.value

\* A store call raised something other than a connection or request error (also the
\* index-existence check or the index creation) and the operation returned an error.
C2_Witness ==
    /\ last.op \in GatewayOps
    /\ last.fault.call \in {"indices.exists", "indices.create"}
    /\ last.fault.type \in {"NotFoundError", "TransportError"}
    /\ Failed("Unexpected error: ")

\* The failure cause of a search: what the store did to it.
SearchCause(st, fault) ==
    IF fault = NoFault THEN (IF IndicesExists(st) THEN "none" ELSE "index missing")
    ELSE IF fault.type = "ConnectionError" THEN "connection failure"
    ELSE IF fault.type = "RequestError" THEN "invalid query"
    ELSE "unexpected error"

SearchFaults == FaultsAt({"indices.exists", "search"})

SearchRun(fault) == search_documents(Store, last.args.query, last.args.size, fault, <<>>)

SearchFailure(fault) == SearchRun(fault).out.value

\* The cause of the failure the store inflicts with this fault, in this state.
CauseOf(fault) == SearchCause(Store, Observed(fault, SearchRun(fault).calls))

OtherCause(fault) == CauseOf(fault) \notin {"none", SearchCause(Store, last.fault)}

\* C3 (as claimed): the failure causes of search_documents are told apart by a tag
\* other than the message: the results of two failures with different causes differ
\* outside their message.
C3_TaggedOutsideMessage ==
    (last.op = "search_documents" /\ Returned("error"))
        => \A fault \in SearchFaults :
              OtherCause(fault) => Without(SearchFailure(fault), {"message"})
                                       # Without(last.out.value, {"message"})

\* C3 (amended): the four failure causes are reported as error results with an empty
\* results list that differ in the prefix of their message, and in nothing else.
C3_DistinctByMessagePrefix ==
    (last.op = "search_documents" /\ Returned("error"))
        => /\ last.out.value.results = <<>>
           /\ \A fault \in SearchFaults :
                 OtherCause(fault)
                     => /\ SearchFailure(fault).message.prefix # last.out.value.message.prefix
                        /\ Without(SearchFailure(fault), {"message"})
                               = Without(last.out.value, {"message"})

\* A search failed because the index is missing, and the store can fail it otherwise.
C3_Witness ==
    /\ last.op = "search_documents"
    /\ Failed("Index {} does not exist")
    /\ \E fault \in SearchFaults : CauseOf(fault) = "invalid query"

\* C4: delete_document on an existing index never raises; if no document has the id it
\* returns an error and leaves the index contents unchanged, the error being the
\* not-found message when the store answered the requests; if the document exists and
\* the store answered, it returns success with the acknowledgment and the document is
\* gone while every other document stays.
C4_DeleteStep ==
    (last'.op = "delete_document" /\ IndicesExists(Store))
        => LET id == last'.args.document_id
               out == last'.out
           IN  /\ ~out.raised
               /\ id \notin DOMAIN docs
                    => /\ out.value.status = "error"
                       /\ docs' = docs /\ visible' = visible /\ index' = index
                       /\ last'.fault = NoFault
                            => out.value.message = Message("Document with ID {} not found", id)
               /\ (id \in DOMAIN docs /\ last'.fault = NoFault)
                    => /\ out.value.status = "success"
                       /\ out.value.response = [_id |-> id, result |-> "deleted"]
                       /\ docs' = Without(docs, {id})
                       /\ id \notin DOMAIN visible'

C4_DeleteDocument == [][C4_DeleteStep]_vars

\* A delete of an id the existing index does not hold was answered with not-found.
C4_Witness ==
    /\ last.op = "delete_document"
    /\ IndicesExists(Store)
    /\ last.args.document_id \notin DOMAIN docs
    /\ Failed("Document with ID {} not found")
    /\ docs # EmptyDict

\* C5: create_index_if_not_exists is idempotent.  A call that follows a call that
\* returned finds the index; whenever the index exists no create request is issued;
\* and a call on an existing index whose existence check is answered raises nothing
\* and leaves the index, its mapping and its contents as they were.
C5_CreateStep ==
    last'.op = "create_index_if_not_exists"
        => /\ (last.op = "create_index_if_not_exists" /\ ~last.out.raised) => IndicesExists(Store)
           /\ IndicesExists(Store)
                => /\ Requests(last'.calls, "indices.create") = <<>>
                   /\ index' = index /\ docs' = docs /\ visible' = visible
                   /\ last'.fault = NoFault => ~last'.out.raised

C5_Idempotent == [][C5_CreateStep]_vars

\* A call found the index in place: it only checked, and returned.
C5_Witness ==
    /\ last.op = "create_index_if_not_exists"
    /\ ~last.out.raised
    /\ last.calls = <<ExistsCall>>
    /\ IndicesExists(Store)
    /\ index = <<mapping>>

\* The schema of the data model: text, metadata object, 1024-dimension k-NN vector with
\* HNSW, inner product, ef_construction 32, m 16, ef_search 32.
FixedSchema ==
    { "settings.index.knn.algo_param.ef_search=32",
      "mappings.properties.dense_vector.type=knn_vector",
      "mappings.properties.dense_vector.dimension=1024",
      "mappings.properties.dense_vector.method.name=hnsw",
      "mappings.properties.dense_vector.method.space_type=innerproduct",
      "mappings.properties.dense_vector.method.parameters.ef_construction=32",
      "mappings.properties.dense_vector.method.parameters.m=16",
      "mappings.properties.text.type=text",
      "mappings.properties.metadata.type=object" }

\* C6 (as claimed): in every reachable state an existing index carries the fixed k-NN
\* schema, whichever operation created it.
C6_IndexHasFixedSchema == IndicesExists(Store) => FixedSchema \subseteq index[1]

BulkHeaderIds(body) == { i \in 1..(Len(body) \div 2) : "_id" \in DOMAIN body[2 * i - 1].index }

\* C7: a write is an upsert that is visible at once.  A successful write_document
\* leaves an index holding the documents it held before with doc under id (a second
\* write replaces), and the search view holds doc under id; a successful
\* index_document adds doc under a new id, visible; a successful delete_document
\* removes the document from the search view; after a successful bulk write the search
\* view holds what the index holds, which is every document of the request when the
\* store accepted every item.
C7_WriteStep ==
    LET args == last'.args
        ok == ~last'.out.raised /\ last'.out.value.status = "success"
    IN  /\ (last'.op = "write_document" /\ ok)
              => /\ Len(index') = 1
                 /\ docs' = Put(docs, args.document_id, args.document)
                 /\ args.document_id \in DOMAIN visible'
                 /\ visible'[args.document_id] = args.document
        /\ (last'.op = "index_document" /\ ok)
              => LET id == last'.out.value.response._id
                 IN  /\ Len(index') = 1
                     /\ id \notin DOMAIN docs
                     /\ docs' = Put(docs, id, args.document)
                     /\ id \in DOMAIN visible'
                     /\ visible'[id] = args.document
        /\ (last'.op = "delete_document" /\ ok)
              => /\ args.document_id \notin DOMAIN visible'
                 /\ visible' = docs'
        /\ (last'.op = "bulk_index_with_embeddings" /\ ok)
              => visible' = docs'
        /\ (last'.op = "bulk_index_with_embeddings" /\ ok /\ last'.fault = NoFault)
              => LET body == Requests(last'.calls, "bulk")[1].body
                 IN  /\ visible' = docs'
                     /\ \A i \in BulkHeaderIds(body) :
                            (\A j \in BulkHeaderIds(body) :
                                 j > i => body[2 * j - 1].index._id # body[2 * i - 1].index._id)
                                => /\ body[2 * i - 1].index._id \in DOMAIN visible'
                                   /\ visible'[body[2 * i - 1].index._id] = body[2 * i]
                     /\ \A i \in (1..(Len(body) \div 2)) \ BulkHeaderIds(body) :
                            \E id \in (DOMAIN visible') \ DOMAIN docs : visible'[id] = body[2 * i]

C7_UpsertVisible == [][C7_WriteStep]_vars

\* A second write_document under the same id succeeded and replaced the document.
C7_Witness ==
    /\ last.op = "write_document"
    /\ Returned("success")
    /\ last.out.value.response.result = "updated"
    /\ visible[last.args.document_id] = last.args.document

ParsedMetadata(metadata) == IF metadata = "{}" THEN EmptyDict ELSE json_loads(metadata).value.v

\* The hit for document id that knn_search hands back when the engine returns it.
HitFor(id) ==
    knn_search(Store, Vec(VECTOR_DIMENSION), 1, NoFault, <<[id |-> id, score |-> Some(7)]>>)
        .out.value.results[1]

\* C8 (as claimed): after index_text_with_embedding(text, X, M) succeeds, the hit for
\* X reshaped by knn_search has id X, the text written and metadata M, whatever the
\* keys of M, and carries no vector.
C8_RoundTrip ==
    (last.op = "index_text_with_embedding" /\ Returned("success") /\ last.args.document_id # "")
        => /\ HitFor(last.args.document_id).id = last.args.document_id
           /\ HitFor(last.args.document_id).text = last.args.text
           /\ DOMAIN HitFor(last.args.document_id).metadata
                  = DOMAIN ParsedMetadata(last.args.metadata)
           /\ \A key \in DOMAIN ParsedMetadata(last.args.metadata) :
                  HitFor(last.args.document_id).metadata[key]
                      = ParsedMetadata(last.args.metadata)[key]
           /\ VECTOR_FIELD \notin DOMAIN HitFor(last.args.document_id)
           /\ VECTOR_FIELD \notin DOMAIN HitFor(last.args.document_id).metadata

\* C9: bulk_index_with_embeddings issues one bulk request when a document was embedded
\* and none otherwise; the body holds, for each embedded document in input order, a
\* header and then the document; the header carries the document's "_id" if it had
\* one, which the document then lacks, and no id otherwise; the request asks for
\* refresh.
C9_BulkRequest ==
    last.op = "bulk_index_with_embeddings"
        => LET documents == last.args.documents
               at == EmbeddedPositions(documents, last.api)
               requests == Requests(last.calls, "bulk")
           IN  /\ Len(requests) = IF at = <<>> THEN 0 ELSE 1
               /\ at # <<>>
                    => /\ requests[1].refresh = TRUE
                       /\ Len(requests[1].body) = 2 * Len(at)
                       /\ \A j \in 1..Len(at) :
                            LET doc == documents[at[j]]
                                header == requests[1].body[2 * j - 1]
                                item == requests[1].body[2 * j]
                            IN  /\ DOMAIN header = {"index"}
                                /\ header.index._index = IndexName
                                /\ "_id" \in DOMAIN doc
                                     => /\ "_id" \in DOMAIN header.index
                                        /\ header.index._id = doc._id
                                /\ "_id" \notin DOMAIN doc => "_id" \notin DOMAIN header.index
                                /\ "_id" \notin DOMAIN item
                                /\ VECTOR_FIELD \in DOMAIN item
                                /\ Without(item, {VECTOR_FIELD}) = Without(doc, {"_id"})

\* A bulk request for two documents, the first without an id and the second with one.
C9_Witness ==
    /\ last.op = "bulk_index_with_embeddings"
    /\ Len(Requests(last.calls, "bulk")) = 1
    /\ Len(Requests(last.calls, "bulk")[1].body) = 4
    /\ BulkHeaderIds(Requests(last.calls, "bulk")[1].body) = {2}

FailedPositions(documents, apis) ==
    SelectSeq([i \in 1..Len(documents) |-> i],
              LAMBDA i : ~("text" \in DOMAIN documents[i] /\ EmbeddingSucceeds(apis[i])))

EmbeddingFailurePrefixes ==
    {"API token not configured for embedding service", "API request failed: ", "Unexpected error: "}

\* C11: when at least one of the n documents is embedded and the bulk request is
\* answered, bulk_index_with_embeddings returns success with processed_count = n - |F|
\* and failed_count = |F|, F being the documents without text or whose embedding
\* failed, and failed_docs holds one entry per document of F, in order, with that
\* document and its reason (no entries at all when F is empty).
C11_PartialFailureAccounting ==
    (/\ last.op = "bulk_index_with_embeddings"
     /\ EmbeddedPositions(last.args.documents, last.api) # <<>>
     /\ last.fault.type \notin StoreExcTypes)
        => LET documents == last.args.documents
               F == FailedPositions(documents, last.api)
               out == last.out.value
               entries == IF out.failed_docs = None THEN <<>> ELSE out.failed_docs[1]
           IN  /\ Returned("success")
               /\ out.processed_count = Len(documents) - Len(F)
               /\ out.failed_count = Len(F)
               /\ out.processed_count + out.failed_count = Len(documents)
               /\ Len(entries) = Len(F)
               /\ \A j \in 1..Len(F) :
                      /\ entries[j].doc = documents[F[j]]
                      /\ "text" \notin DOMAIN documents[F[j]]
                            => entries[j].reason = Message("Missing text field '{}'", "text")
                      /\ "text" \in DOMAIN documents[F[j]]
                            => entries[j].reason.prefix \in EmbeddingFailurePrefixes

\* Two documents, one embedded and one whose embedding request failed.
C11_Witness ==
    /\ last.op = "bulk_index_with_embeddings"
    /\ Returned("success")
    /\ Len(last.args.documents) = 2
    /\ last.out.value.processed_count = 1
    /\ last.out.value.failed_count = 1
    /\ last.out.value.failed_docs # None
    /\ last.out.value.failed_docs[1][1].reason.prefix = "API request failed: "

\* The documents an ingestion call handed to the embedding loop: the documents given
\* to bulk_index_with_embeddings, or the chunks of the file process_file read and
\* split (none when it stopped before).
LoopDocuments(l) ==
    IF l.op = "bulk_index_with_embeddings" THEN l.args.documents
    ELSE IF \/ l.fault.call \in {"indices.exists", "indices.create"}
            \/ l.args.file.read # "ok"
            \/ l.args.file.split # "ok"
    THEN <<>>
    ELSE ChunkDocuments(l.args.file_path, l.args.metadata, l.args.file.chunks)

IngestOps == {"process_file", "bulk_index_with_embeddings"}

\* C12: when no document is embedded (every embedding fails, or there are no chunks),
\* process_file and bulk_index_with_embeddings return status error, issue no bulk
\* request, and the result lists every document of the loop in failed_docs; they
\* return success only when at least one document was embedded.
C12_ZeroEmbedded ==
    last.op \in IngestOps
        => LET documents == LoopDocuments(last)
               embedded == EmbeddedPositions(documents, last.api)
           IN  /\ Returned("success") => embedded # <<>>
               /\ embedded = <<>>
                    => /\ Returned("error")
                       /\ Requests(last.calls, "bulk") = <<>>
                       /\ \A i \in 1..Len(documents) :
                              /\ "failed_docs" \in DOMAIN last.out.value
                              /\ Len(last.out.value.failed_docs) = Len(documents)
                              /\ last.out.value.failed_docs[i].doc = documents[i]

\* A file was split into two chunks and the embedding failed for both.
C12_Witness ==
    /\ last.op = "process_file"
    /\ Len(LoopDocuments(last)) = 2
    /\ Failed("No documents were processed successfully")
    /\ Len(last.out.value.failed_docs) = 2
    /\ Len(Requests(last.calls, "requests.post")) = 2

\* C13: when reading the file or splitting the text raises, process_file returns
\* status error, and the call makes no embedding request and writes no document: it
\* issues nothing but the index check and creation, and the documents of the index
\* and of the search view stay as they were.
C13_AbortStep ==
    (/\ last'.op = "process_file"
     /\ last'.args.file.read # "ok" \/ last'.args.file.split # "ok")
        => /\ ~last'.out.raised
           /\ last'.out.value.status = "error"
           /\ \A i \in 1..Len(last'.calls) :
                  last'.calls[i].api \in {"indices.exists", "indices.create"}
           /\ docs' = docs
           /\ visible' = visible

C13_ReadOrSplitFailureAborts == [][C13_AbortStep]_vars

\* The splitter raised on a file that was read, with a token configured and the index
\* in place: the call ended with the error and only checked the index.
C13_Witness ==
    /\ last.op = "process_file"
    /\ last.args.file.read = "ok"
    /\ last.args.file.split = "ValueError"
    /\ embedding_api_token # ""
    /\ last.fault = NoFault
    /\ Failed("{}")
    /\ last.out.value.message.text = "ValueError"
    /\ last.calls = <<ExistsCall>>

\* The failed_docs entries of a result: none when the key is missing or None.
FailedEntries(value) ==
    IF "failed_docs" \notin DOMAIN value THEN <<>>
    ELSE IF value.status = "error" THEN value.failed_docs
    ELSE IF value.failed_docs = None THEN <<>>
    ELSE value.failed_docs[1]

Persisted(doc) ==
    \E id \in DOMAIN docs : Without(docs[id], {VECTOR_FIELD}) = Without(doc, {"_id"})

\* C14 (as claimed): after bulk_index_with_embeddings returns, every input document is
\* in the store or is listed in failed_docs, also when the bulk request raises or the
\* store rejects an item, and processed_count counts no document that is not stored.
C14_PerItemReport ==
    last.op = "bulk_index_with_embeddings"
        => LET documents == last.args.documents
               entries == FailedEntries(last.out.value)
           IN  /\ \A i \in 1..Len(documents) :
                      \/ Persisted(documents[i])
                      \/ \E j \in 1..Len(entries) : entries[j].doc = documents[i]
               /\ Returned("success")
                    => last.out.value.processed_count
                           <= Cardinality({i \in 1..Len(documents) : Persisted(documents[i])})

StoreCalls(calls) == SelectSeq(calls, LAMBDA c : c.api # "requests.post")

\* The length of the vector a successful answer of the embedding API yields.
AnswerLength(api) == len(Get(Get(api.json, "data", <<EmptyDict>>)[1], "embedding", Vec(0)))

Embedded(l) == embedding_api_token # "" /\ l.api # <<>> /\ EmbeddingSucceeds(l.api[1])

\* C15: in text_similarity_search a request reaches the store only if the query was
\* embedded and the vector has 1024 elements; when the embedding fails, its error
\* result is returned as it is and no store call is made; when the vector has another
\* length the dimension-mismatch error is returned and no store call is made.
C15_SearchOnlyAfterEmbedding ==
    last.op = "text_similarity_search"
        => /\ StoreCalls(last.calls) # <<>>
                => Embedded(last) /\ AnswerLength(last.api[1]) = 1024
           /\ ~Embedded(last)
                => /\ StoreCalls(last.calls) = <<>>
                   /\ Returned("error")
                   /\ last.out.value.message.prefix \in EmbeddingFailurePrefixes
                   /\ DOMAIN last.out.value = {"status", "message"}
           /\ (Embedded(last) /\ AnswerLength(last.api[1]) # 1024)
                => /\ StoreCalls(last.calls) = <<>>
                   /\ Failed("Vector dimension mismatch. Expected 1024, got {}")
                   /\ last.out.value.message.text = ToString(AnswerLength(last.api[1]))

\* The query was embedded into 512 elements: mismatch, and nothing but the embedding
\* request was issued.
C15_Witness ==
    /\ last.op = "text_similarity_search"
    /\ Embedded(last)
    /\ AnswerLength(last.api[1]) = 512
    /\ Failed("Vector dimension mismatch. Expected 1024, got {}")
    /\ Len(last.calls) = 1

\* The hits the store returned to the search of the last call.
ReturnedHits == Requests(last.calls, "search")[1].answer

\* C16: a successful text_similarity_search(text, k, s) returns no result with score
\* <= s, returns every hit of the store with score > s, and reports total =
\* len(results) and original_total = the number of hits before filtering, with
\* len(results) <= original_total <= k.
C16_ScoreFiltering ==
    (last.op = "text_similarity_search" /\ Returned("success"))
        => LET r == last.out.value
               s == last.args.score
           IN  /\ \A i \in 1..Len(r.results) : r.results[i].score[1] > s
               /\ \A j \in 1..Len(ReturnedHits) :
                      ReturnedHits[j].score[1] > s
                          => \E i \in 1..Len(r.results) :
                                 /\ r.results[i].id = ReturnedHits[j].id
                                 /\ r.results[i].score = ReturnedHits[j].score
               /\ r.total = Len(r.results)
               /\ r.score_threshold = s
               /\ r.original_total = Len(ReturnedHits)
               /\ Len(r.results) <= r.original_total
               /\ r.original_total <= last.args.k

\* Two hits, one above the threshold and one equal to it: only the first is returned.
C16_Witness ==
    /\ last.op = "text_similarity_search"
    /\ Returned("success")
    /\ last.out.value.original_total = 2
    /\ last.out.value.total = 1
    /\ \E j \in 1..Len(ReturnedHits) : ReturnedHits[j].score = Some(last.args.score)

\* The documents of the write requests a call issued.
WrittenDocuments(calls) ==
    { calls[i].body : i \in { n \in 1..Len(calls) : calls[n].api = "index" } }
    \cup UNION { { calls[i].body[2 * j] : j \in 1..(Len(calls[i].body) \div 2) } :
                    i \in { n \in 1..Len(calls) : calls[n].api = "bulk" } }

\* C17 (as claimed): every document the system writes to the store, through
\* index_text_with_embedding or the bulk write, has a vector field of exactly 1024
\* elements, whatever answer of the embedding API was accepted as a success.
C17_WrittenVectorsHaveDimension ==
    last.op \in {"index_text_with_embedding", "bulk_index_with_embeddings", "process_file"}
        => \A doc \in WrittenDocuments(last.calls) :
               /\ VECTOR_FIELD \in DOMAIN doc
               /\ len(doc[VECTOR_FIELD]) = VECTOR_DIMENSION

\* The endpoint answered with status 200 and a JSON object that has a result.
AnsweredWithResult(http) ==
    /\ http.transport = "ok"
    /\ http.status_code = 200
    /\ http.body.type = "dict"
    /\ "result" \in DOMAIN http.body.v

\* C18: the similarity_search tool sends tools/call only after an initialize that was
\* answered with status 200 and a result; when initialize fails in any way the tool
\* sends exactly one request in total and returns status error.
C18_InitializeBeforeCall ==
    last.op = "similarity_search"
        => /\ \A i \in 1..Len(last.calls) :
                  last.calls[i].method = "tools/call"
                      => /\ i = 2
                         /\ last.calls[1].method = "initialize"
                         /\ AnsweredWithResult(last.api[1])
           /\ (last.calls # <<>> /\ ~AnsweredWithResult(last.api[1]))
                => /\ Len(last.calls) = 1
                   /\ last.calls[1].method = "initialize"
                   /\ Returned("error")

\* initialize was answered with status 200 but without a result: one request, error.
C18_Witness ==
    /\ last.op = "similarity_search"
    /\ Len(last.calls) = 1
    /\ last.api[1].transport = "ok"
    /\ last.api[1].status_code = 200
    /\ ~AnsweredWithResult(last.api[1])
    /\ Returned("error")
    /\ last.out.value.content[1].text.prefix = "Failed to initialize MCP session"

CarriesSession(http) == http.transport = "ok" /\ "mcp-session-id" \in DOMAIN http.headers

SentSession(request) ==
    IF "Mcp-Session-Id" \in DOMAIN request.headers THEN request.headers["Mcp-Session-Id"] ELSE ""

\* C19: a request of an MCPClient carries the session id the client holds, and none
\* when it holds none; the client holds none when created and, after a request, the
\* mcp-session-id of the response if it carried one, and otherwise (no header, or no
\* response) what it held before.  In the tool, whose client is new, the first request
\* carries no session id and the second that of the first response, if any.
C19_SessionStep ==
    /\ last'.op = "MCPClient" => session_id' = ""
    /\ last'.op \in {"MCPClient.initialize", "MCPClient.similarity_search"}
          => /\ Len(last'.calls) = 1
             /\ SentSession(last'.calls[1]) = session_id
             /\ session_id' = IF CarriesSession(last'.api[1])
                               THEN last'.api[1].headers["mcp-session-id"] ELSE session_id
    /\ (last'.op = "similarity_search" /\ last'.calls # <<>>)
          => /\ SentSession(last'.calls[1]) = ""
             /\ Len(last'.calls) = 2
                  => SentSession(last'.calls[2])
                         = IF CarriesSession(last'.api[1])
                           THEN last'.api[1].headers["mcp-session-id"] ELSE ""

SearchAnswered(http) ==
    /\ AnsweredWithResult(http)
    /\ "content" \in DOMAIN http.body.v.result
    /\ http.body.v.result.content # <<>>

\* C20 (as claimed): whenever the tools/call request fails after a successful
\* initialize (status other than 200, no result, empty content, transport failure),
\* the tool result has status error.
C20_FailedCallIsError ==
    (last.op = "similarity_search" /\ Len(last.calls) = 2 /\ ~SearchAnswered(last.api[2]))
        => Returned("error")

\* The documents of the loop that have the text field, in input order.
WithText(documents) == SelectSeq(documents, LAMBDA doc : "text" \in DOMAIN doc)

\* C23: process_file and bulk_index_with_embeddings attempt the embedding of every
\* chunk that has text, once, one after the other in chunk order (with a token: one
\* request per chunk, the i-th for chunk_index i - 1; without one: every attempt ends
\* without a request and is listed as failed), whatever the outcome of the earlier
\* attempts; at most one bulk write is issued, and it is the last call, after the
\* attempt for the last chunk.
C23_SequentialEmbedding ==
    last.op \in IngestOps
        => LET documents == LoopDocuments(last)
               chunks == WithText(documents)
               posts == Requests(last.calls, "requests.post")
               bulks == Requests(last.calls, "bulk")
           IN  /\ embedding_api_token # ""
                    => /\ Len(posts) = Len(chunks)
                       /\ \A i \in 1..Len(chunks) : posts[i].input = chunks[i].text
               /\ embedding_api_token = ""
                    => /\ posts = <<>>
                       /\ bulks = <<>>
                       /\ Len(FailedEntries(last.out.value)) = Len(documents)
               /\ last.op = "process_file"
                    => \A i \in 1..Len(documents) :
                           /\ "text" \in DOMAIN documents[i]
                           /\ documents[i].metadata.chunk_index = i - 1
               /\ Len(bulks) <= 1
               /\ \A i \in 1..Len(last.calls) :
                      /\ last.calls[i].api = "bulk" => i = Len(last.calls)
                      /\ last.calls[i].api = "requests.post"
                            => \A j \in (i + 1)..Len(last.calls) :
                                   last.calls[j].api \in {"requests.post", "bulk"}

\* A file of two chunks: the embedding of the first failed, the second was requested
\* all the same, and the bulk write followed it.
C23_Witness ==
    /\ last.op = "process_file"
    /\ Len(LoopDocuments(last)) = 2
    /\ ~EmbeddingSucceeds(last.api[1])
    /\ EmbeddingSucceeds(last.api[2])
    /\ Len(Requests(last.calls, "requests.post")) = 2
    /\ last.calls[Len(last.calls)].api = "bulk"
    /\ last.calls[Len(last.calls) - 1].api = "requests.post"
    /\ last.calls[Len(last.calls) - 1].input = "t2"
    /\ Returned("success")

\* A hit of the store as the tool is to return it.
Reshaped(h) ==
    [id |-> h.id, score |-> h.score,
     text |-> Get(visible[h.id], "text", ""),
     metadata |-> Without(visible[h.id], {"text", VECTOR_FIELD})]

StrictlyIncreasing(f) == \A i, j \in DOMAIN f : i < j => f[i] < f[j]

\* C24: the results of a successful text_similarity_search are a subsequence of the
\* store's hits in the store's order; each is exactly {id, score, text, metadata} with
\* the hit's id, score and text and, as metadata, every field of the stored document
\* except text and the vector field; the vector field is in no result.
C24_ResultsAreReshapedHits ==
    (last.op = "text_similarity_search" /\ Returned("success"))
        => LET results == last.out.value.results
           IN  /\ \E f \in [1..Len(results) -> 1..Len(ReturnedHits)] :
                      /\ StrictlyIncreasing(f)
                      /\ \A i \in 1..Len(results) : results[i] = Reshaped(ReturnedHits[f[i]])
               /\ \A i \in 1..Len(results) :
                      /\ DOMAIN results[i] = {"id", "score", "text", "metadata"}
                      /\ VECTOR_FIELD \notin DOMAIN results[i].metadata
                      /\ "text" \notin DOMAIN results[i].metadata

\* Two stored documents, both with a vector and one with a metadata field, were
\* returned in the store's order.
C24_Witness ==
    /\ last.op = "text_similarity_search"
    /\ Returned("success")
    /\ Len(last.out.value.results) = 2
    /\ last.out.value.results[1].id = ReturnedHits[1].id
    /\ last.out.value.results[2].id = ReturnedHits[2].id
    /\ \E i \in 1..2 : last.out.value.results[i].metadata # EmptyDict
    /\ \A i \in 1..2 : VECTOR_FIELD \in DOMAIN visible[last.out.value.results[i].id]

\* The call of process p ended with an error that reports the index creation of
\* another call.
FailedByCreation(p) ==
    /\ inflight[p].pc = "done"
    /\ inflight[p].out.value.status = "error"
    /\ inflight[p].out.value.message.text = "resource_already_exists_exception"

\* C25 (as claimed): when two calls check and create the absent index concurrently,
\* under every interleaving neither ends with an error caused by the other's creation,
\* and once a call has ended the index exists.
C25_ConcurrentCreateIsSafe ==
    \A p \in Procs :
        /\ ~FailedByCreation(p)
        /\ inflight[p].pc = "done" => IndicesExists(Store)

IsFailureJson(value) == "success" \in DOMAIN value

CredentialsSet(env) == env.AWS_ACCESS_KEY_ID # "" /\ env.AWS_SECRET_ACCESS_KEY # ""

\* C21 (as claimed): when the AWS credentials are set (and EXPIRE_HOURS is unset or a
\* number) and every AWS call succeeds, upload_file stores the content under key
\* files/<file_name> in the account's bucket and returns the presigned URL of that
\* object, not the failure JSON.
C21_UploadReturnsUrl ==
    (/\ last.op = "upload_file"
     /\ CredentialsSet(last.args.env)
     /\ last.args.env.EXPIRE_HOURS # Some("abc")
     /\ last.fault = NoFault)
        => LET key == S3Key("files", last.args.file_name)
           IN  /\ BucketName(AccountId) \in s3.buckets
               /\ key \in DOMAIN s3.objects
               /\ s3.objects[key].Body = last.args.file_content
               /\ ~IsFailureJson(last.out.value)
               /\ last.out.value.Bucket = BucketName(AccountId)
               /\ last.out.value.Key = key

\* C26 (as claimed): a call of upload_file that returns the failure JSON has not
\* written the object: it leaves the objects of the bucket as they were and has issued
\* no put_object that the store accepted.
C26_FailureStep ==
    (last'.op = "upload_file" /\ IsFailureJson(last'.out.value))
        => /\ s3'.objects = s3.objects
           /\ \A i \in 1..Len(last'.calls) :
                  last'.calls[i].api = "put_object" => last'.fault.call = "put_object"

C26_FailureWritesNothing == [][C26_FailureStep]_vars

\* The presented token without one leading "Bearer ".
Unprefixed(str) == IF str # <<>> /\ Head(str) = "Bearer " THEN Tail(str) ELSE str

\* C22 (as claimed): the authorizer answers Allow exactly when the presented token,
\* without one leading "Bearer ", equals the configured MCP_AUTH_TOKEN, and Deny
\* otherwise; with MCP_AUTH_TOKEN unset it denies every request; and it never allows a
\* request whose token is missing or empty, whatever is configured (the empty string
\* included).
C22_AuthorizerDecision ==
    last.op = "lambda_handler"
        => LET configured == last.args.MCP_AUTH_TOKEN
               event == last.args.event
               presented == IF "authorizationToken" \in DOMAIN event
                            THEN event.authorizationToken ELSE <<>>
               effect == last.out.value.policyDocument.Statement[1].Effect
           IN  /\ effect \in {"Allow", "Deny"}
               /\ effect = "Allow"
                    => /\ configured # None
                       /\ Unprefixed(presented) = configured[1]
               /\ (configured # None /\ presented # <<>>
                      /\ Unprefixed(presented) = configured[1]) => effect = "Allow"
               /\ configured = None => effect = "Deny"
               /\ presented = <<>> => effect = "Deny"

====
